---- MODULE Spec2Model ----
(***************************************************************************)
(* Model of the "nearby stops with arrivals" endpoint of the DRTime        *)
(* application: src/drtime/src/app/api/stops/nearby/route.ts, and of the   *)
(* route-details endpoint, src/drtime/src/app/api/routes/[routeId]/route.ts.*)
(*                                                                         *)
(* Time is an integer number of milliseconds since local midnight of day   *)
(* 0, in a local time zone without daylight-saving changes; a Date of the  *)
(* source is such a number.  A GTFS "HH:MM:SS" string is the triple of its *)
(* three numeric fields, which is what split(":").map(Number) makes of it. *)
(* An optional value (null, undefined, a?.b) is a sequence of length 0 or  *)
(* 1.                                                                      *)
(***************************************************************************)
EXTENDS Integers, Sequences, FiniteSets, TLC

VARIABLES
    clock,          \* Date.now(): the wall clock, in ms
    nticks,         \* how many times the clock has advanced
    gtfsCache,      \* the module-level cache slot: None or Some(snapshot)
    req,            \* per request: position in GET, query, snapshot held, response
    res,            \* per request and stop: the getUpcomingArrivals call for it
    staticFetches,  \* fetches of the static archive issued by downloadAndExtractGTFS
    liveFetches,    \* upstream fetches of the live feed issued so far
    parsed,         \* the last parseGtfsTime call: its input, its clock, its result
    routeReq,       \* the request to /api/routes/[routeId]: position, response
    measured        \* the last calculateDistance calls: their points, their results

vars == <<clock, nticks, gtfsCache, req, res, staticFetches, liveFetches, parsed,
          routeReq, measured>>

----------------------------------------------------------------------------
(* Bounds of the model *)

NumReqs == 2        \* concurrent requests of the main specification
MaxTicks == 3       \* clock advances per behaviour
MaxStopTimes == 6   \* longest stop_times table of the drawn snapshots

----------------------------------------------------------------------------
(* Program constants *)

CACHE_DURATION == 60 * 60 * 1000
RESOLVER_TIMEOUT == 5000
LIVE_AXIOS_TIMEOUT == 30000
STATIC_AXIOS_TIMEOUT == 10000
WINDOW_MS == 7200000
MINUTE_MS == 60000
MAX_ARRIVALS == 5
RADIUS_KM == 10
MAX_RESULTS == 60

HOUR_MS == 60 * MINUTE_MS
DAY_MS == 24 * HOUR_MS

----------------------------------------------------------------------------
(* Optional values and small helpers *)

None == << >>
Some(x) == <<x>>

MinOf(S) == CHOOSE i \in S : \A j \in S : i <= j

\* Array.prototype.find: the first element satisfying P, if any
Find(seq, P(_)) ==
    LET idxs == {i \in 1..Len(seq) : P(seq[i])}
    IN  IF idxs = {} THEN None ELSE Some(seq[MinOf(idxs)])

\* Array.prototype.filter
Filter(seq, P(_)) == SelectSeq(seq, P)

\* Array.prototype.slice(0, n)
Slice0(seq, n) == SubSeq(seq, 1, IF Len(seq) < n THEN Len(seq) ELSE n)

\* Math.round(num / den) for den > 0: halves round towards +infinity
MathRound(num, den) == (2 * num + den) \div (2 * den)

----------------------------------------------------------------------------
(* Date: the methods parseGtfsTime uses *)

getDate(d) == d \div DAY_MS
getTime(d) == d

\* Date.prototype.setHours(h, m, s): the milliseconds are left as they were;
\* values out of range carry into the date
setHours(d, h, m, s) ==
    getDate(d) * DAY_MS + h * HOUR_MS + m * MINUTE_MS + s * 1000 + (d % 1000)

\* Date.prototype.setDate(n): the time of day is left as it was
setDate(d, n) == n * DAY_MS + (d % DAY_MS)

\* parseGtfsTime(timeStr), with the value its own "new Date()" reads
parseGtfsTime_noMod(timeStr, wallNow) ==
    LET hours == timeStr[1]
        minutes == timeStr[2]
        seconds == timeStr[3]
        dayOffset == hours \div 24
        result == setHours(wallNow, hours, minutes, seconds)
    IN  setDate(result, getDate(result) + dayOffset)

parseGtfsTime(timeStr, wallNow) ==
    LET hours == timeStr[1]
        minutes == timeStr[2]
        seconds == timeStr[3]
        dayOffset == hours \div 24
        adjustedHours == hours % 24
        result == setHours(wallNow, adjustedHours, minutes, seconds)
    IN  setDate(result, getDate(result) + dayOffset)

\* toLocaleTimeString("en-US", {hour: "2-digit", minute: "2-digit", hour12: true})
toLocaleTimeString(d) ==
    LET h == (d % DAY_MS) \div HOUR_MS
        m == (d % HOUR_MS) \div MINUTE_MS
    IN  <<IF h % 12 = 0 THEN 12 ELSE h % 12, m, IF h < 12 THEN "AM" ELSE "PM">>

----------------------------------------------------------------------------
(* The live feed as decoded: a list of entities.  An entity carries an     *)
(* optional tripUpdate [tripId, stopTimeUpdate]; a stopTimeUpdate entry is *)
(* [stopId, arrival, departure], each of the two an optional POSIX time in *)
(* seconds (a protobuf int64, decoded as a Long).                          *)

\* new Date(typeof timestamp === "number" ? timestamp * 1000 : timestamp.low * 1000):
\* a POSIX time before 2038 is below 2^31 and is its own low word
timestampToDate(ts) == ts * 1000

\* The outcome of the upstream live-feed request, as getRealtimeTripUpdates
\* sees it: [kind, entities].  Kinds: "neterr" (transport error), "status"
\* (a status other than 200, rejected by validateStatus), "timeout" (axios
\* timeout), "empty" (no payload), "baddecode" (FeedMessage.decode throws),
\* "ok" (decoded; entities may be the empty list).
LiveFailureKinds == {"neterr", "status", "timeout", "empty", "baddecode"}

\* What an async function hands its caller: a value, or a rejection
Resolved(v) == [rejected |-> FALSE, value |-> v]
Rejected == [rejected |-> TRUE, value |-> << >>]

getRealtimeTripUpdates_rethrow(outcome) ==
    CASE outcome.kind \in {"neterr", "status", "timeout"} -> Resolved(<< >>)
      [] outcome.kind = "empty" -> Resolved(<< >>)
      [] outcome.kind = "baddecode" -> Rejected
      [] OTHER -> Resolved(outcome.entities)

getRealtimeTripUpdates(outcome) ==
    CASE outcome.kind \in {"neterr", "status", "timeout"} -> Resolved(<< >>)
      [] outcome.kind = "empty" -> Resolved(<< >>)
      [] outcome.kind = "baddecode" -> Resolved(<< >>)
      [] OTHER ->
           IF outcome.entities = << >> THEN Resolved(<< >>)
           ELSE Resolved(outcome.entities)

\* The value the timer of Promise.race resolves with
timerValue_stale ==
    <<[tripUpdate |-> Some([tripId |-> "T1",
                            stopTimeUpdate |-> <<[stopId |-> "S1",
                                                  arrival |-> Some(136980),  \* 14:03:00 of day 1
                                                  departure |-> None]>>])]>>

timerValue == << >>

----------------------------------------------------------------------------
(* getUpcomingArrivals: the body of the loop over the stop's stop-times.   *)
(* now is the Date captured when the call began; wallNow is the clock when *)
(* the loop runs, which parseGtfsTime reads for itself.                    *)

\* The test of lines 227-230
inWindow_noUpperEdge(arrivalTime, now) == arrivalTime > now

inWindow(arrivalTime, now) ==
    /\ arrivalTime > now
    /\ getTime(arrivalTime) - getTime(now) <= WINDOW_MS

\* realtimeUpdate.tripUpdate.stopTimeUpdate.find((update) => update.stopId === stopId)
findStopUpdate_anyStop(stopTimeUpdate, stopId) ==
    Find(stopTimeUpdate, LAMBDA u : TRUE)

findStopUpdate(stopTimeUpdate, stopId) ==
    Find(stopTimeUpdate, LAMBDA u : u.stopId = stopId)

\* isRealtime after lines 201-223: set by an arrival prediction (line 213) and
\* by a departure prediction (line 222)
isRealtimeOf_arrivalOnly(hasArr, hasDep) == hasArr

isRealtimeOf_departureOnly(hasArr, hasDep) == hasDep

isRealtimeOf(hasArr, hasDep) == hasArr \/ hasDep

\* (a variant in which a trip whose route is absent takes the feed's first route)
resolveStopTime_routeUnchecked(st, stopId, gtfsData, realtimeUpdates, now, wallNow) ==
    LET trip == Find(gtfsData.trips, LAMBDA t : t.trip_id = st.trip_id)
    IN  IF trip = None THEN None
        ELSE
        LET found == Find(gtfsData.routes,
                          LAMBDA r : r.route_id = trip[1].route_id)
            route == IF found = None THEN Some(gtfsData.routes[1]) ELSE found
        IN
            LET realtimeUpdate ==
                    Find(realtimeUpdates,
                         LAMBDA e : /\ e.tripUpdate # None
                                    /\ e.tripUpdate[1].tripId = st.trip_id)
                schedArrival == parseGtfsTime(st.arrival_time, wallNow)
                schedDeparture == parseGtfsTime(st.departure_time, wallNow)
                stopUpdate ==
                    IF realtimeUpdate = None THEN None
                    ELSE findStopUpdate(realtimeUpdate[1].tripUpdate[1].stopTimeUpdate,
                                        stopId)
                hasArr == stopUpdate # None /\ stopUpdate[1].arrival # None
                hasDep == stopUpdate # None /\ stopUpdate[1].departure # None
                realtimeArrival ==
                    IF hasArr THEN timestampToDate(stopUpdate[1].arrival[1])
                    ELSE 0
                arrivalTime == IF hasArr THEN realtimeArrival ELSE schedArrival
                departureTime ==
                    IF hasDep THEN timestampToDate(stopUpdate[1].departure[1])
                    ELSE schedDeparture
                delayMinutes ==
                    IF hasArr
                    THEN MathRound(getTime(realtimeArrival) - getTime(schedArrival),
                                   MINUTE_MS)
                    ELSE 0
                isRealtime == isRealtimeOf(hasArr, hasDep)
            IN  IF inWindow(arrivalTime, now)
                THEN Some([routeId |-> route[1].route_id,
                           routeName |-> route[1].route_short_name,
                           headsign |-> trip[1].trip_headsign,
                           scheduledArrival |-> toLocaleTimeString(arrivalTime),
                           minutesUntilArrival |->
                               MathRound(getTime(arrivalTime) - getTime(now),
                                         MINUTE_MS),
                           isRealtime |-> isRealtime,
                           delayMinutes |-> delayMinutes])
                ELSE None

resolveStopTime(st, stopId, gtfsData, realtimeUpdates, now, wallNow) ==
    LET trip == Find(gtfsData.trips, LAMBDA t : t.trip_id = st.trip_id)
    IN  IF trip = None THEN None
        ELSE
        LET route == Find(gtfsData.routes,
                          LAMBDA r : r.route_id = trip[1].route_id)
        IN  IF route = None THEN None
            ELSE
            LET realtimeUpdate ==
                    Find(realtimeUpdates,
                         LAMBDA e : /\ e.tripUpdate # None
                                    /\ e.tripUpdate[1].tripId = st.trip_id)
                schedArrival == parseGtfsTime(st.arrival_time, wallNow)
                schedDeparture == parseGtfsTime(st.departure_time, wallNow)
                stopUpdate ==
                    IF realtimeUpdate = None THEN None
                    ELSE findStopUpdate(realtimeUpdate[1].tripUpdate[1].stopTimeUpdate,
                                        stopId)
                hasArr == stopUpdate # None /\ stopUpdate[1].arrival # None
                hasDep == stopUpdate # None /\ stopUpdate[1].departure # None
                realtimeArrival ==
                    IF hasArr THEN timestampToDate(stopUpdate[1].arrival[1])
                    ELSE 0
                arrivalTime == IF hasArr THEN realtimeArrival ELSE schedArrival
                departureTime ==
                    IF hasDep THEN timestampToDate(stopUpdate[1].departure[1])
                    ELSE schedDeparture
                delayMinutes ==
                    IF hasArr
                    THEN MathRound(getTime(realtimeArrival) - getTime(schedArrival),
                                   MINUTE_MS)
                    ELSE 0
                isRealtime == isRealtimeOf(hasArr, hasDep)
            IN  IF inWindow(arrivalTime, now)
                THEN Some([routeId |-> route[1].route_id,
                           routeName |-> route[1].route_short_name,
                           headsign |-> trip[1].trip_headsign,
                           scheduledArrival |-> toLocaleTimeString(arrivalTime),
                           minutesUntilArrival |->
                               MathRound(getTime(arrivalTime) - getTime(now),
                                         MINUTE_MS),
                           isRealtime |-> isRealtime,
                           delayMinutes |-> delayMinutes])
                ELSE None

\* The loop: the entries pushed onto upcoming, in the order of the table
RECURSIVE pushUpcoming(_, _, _, _, _, _)
pushUpcoming(stopTimes, stopId, gtfsData, realtimeUpdates, now, wallNow) ==
    IF stopTimes = << >> THEN << >>
    ELSE resolveStopTime(Head(stopTimes), stopId, gtfsData, realtimeUpdates,
                         now, wallNow)
         \o pushUpcoming(Tail(stopTimes), stopId, gtfsData, realtimeUpdates,
                         now, wallNow)

\* Array.prototype.sort((a, b) => a.minutesUntilArrival - b.minutesUntilArrival):
\* a stable sort, here by insertion
RECURSIVE insertByMinutes(_, _)
insertByMinutes(sorted, a) ==
    IF sorted = << >> THEN <<a>>
    ELSE IF a.minutesUntilArrival < Head(sorted).minutesUntilArrival
         THEN <<a>> \o sorted
         ELSE <<Head(sorted)>> \o insertByMinutes(Tail(sorted), a)

RECURSIVE sortByMinutes_desc(_)
sortByMinutes_desc(seq) ==
    IF seq = << >> THEN << >>
    ELSE LET rest == sortByMinutes_desc(Tail(seq))
             a == Head(seq)
             before == SelectSeq(rest, LAMBDA b :
                          b.minutesUntilArrival > a.minutesUntilArrival)
             after == SelectSeq(rest, LAMBDA b :
                          b.minutesUntilArrival <= a.minutesUntilArrival)
         IN  before \o <<a>> \o after

RECURSIVE sortByMinutesFrom(_, _)
sortByMinutesFrom(sorted, seq) ==
    IF seq = << >> THEN sorted
    ELSE sortByMinutesFrom(insertByMinutes(sorted, Head(seq)), Tail(seq))

sortByMinutes(seq) == sortByMinutesFrom(<< >>, seq)

\* upcoming after the loop and the in-place sort
upcomingSorted(stopId, gtfsData, realtimeUpdates, now, wallNow) ==
    sortByMinutes(
        pushUpcoming(Filter(gtfsData.stopTimes, LAMBDA st : st.stop_id = stopId),
                     stopId, gtfsData, realtimeUpdates, now, wallNow))

\* .slice(0, 5)
sliceArrivals(upcoming) == Slice0(upcoming, MAX_ARRIVALS)

----------------------------------------------------------------------------
(* calculateDistance.  Coordinates are thousandths of a degree, the result *)
(* is in metres (pi is 355/113), None is NaN.  parseFloat of a text that   *)
(* is no number is NaN.                                                    *)
(*                                                                         *)
(* For two points on one meridian dLon = 0, the Haversine term a is        *)
(* sin^2(dLat/2), at most 1, and c = 2 atan2(sin|dLat/2|, cos(dLat/2)) is  *)
(* |dLat|: the result is R |dLat|.                                         *)
(*                                                                         *)
(* For two antipodal points, (lat, lon) and (-lat, lon + 180), a is the    *)
(* sum of the rounded products sin^2(lat) and cos^2(lat), which is 1 up to *)
(* the rounding of IEEE-754 double arithmetic.  That arithmetic is carried *)
(* out here bit for bit: a number in [0, 2) is the set of the positions of *)
(* the 1 bits of its value in units of 2^-72, a product or sum is formed   *)
(* exactly and rounded to 53 significant bits, ties to even.  Math.sin and *)
(* Math.cos are tabulated for the angles used.  If a exceeds 1, 1 - a is   *)
(* negative, Math.sqrt(1 - a) is NaN and so is the result; otherwise c is  *)
(* pi to within 2^-25 and the result is R pi.                              *)

EARTH_RADIUS_KM == 6371

Abs(x) == IF x < 0 THEN 0 - x ELSE x

parseFloat(p) == IF p.kind = "num" THEN Some(p.v) ELSE None

\* R * pi / 180: the metres in one degree of latitude
METRES_PER_DEGREE == (EARTH_RADIUS_KM * 355 * 100) \div (113 * 18)

FRACTION_BITS == 72
MANTISSA_BITS == 53

MaxOf(S) == CHOOSE i \in S : \A j \in S : i >= j

\* The bits of a value written as digits of base 4096, least significant first
bitsOf(digits) ==
    {n \in 0..(12 * Len(digits) - 1) :
        (digits[(n \div 12) + 1] \div (2 ^ (n % 12))) % 2 = 1}

\* Exact sum and product of two values
RECURSIVE bigAdd(_, _)
bigAdd(x, y) ==
    IF y = {} THEN x
    ELSE bigAdd((x \cup y) \ (x \cap y), {i + 1 : i \in x \cap y})

RECURSIVE bigMul(_, _)
bigMul(x, y) ==
    IF y = {} THEN {}
    ELSE LET i == MinOf(y)
         IN  bigAdd({j + i : j \in x}, bigMul(x, y \ {i}))

\* Rounding to 53 significant bits, to nearest, ties to even
round53(x) ==
    IF x = {} THEN {}
    ELSE LET sh == MaxOf(x) + 1 - MANTISSA_BITS
         IN  IF sh <= 0 THEN x
             ELSE LET q == {i - sh : i \in {j \in x : j >= sh}}
                      up == /\ (sh - 1) \in x
                            /\ (\E i \in x : i < sh - 1) \/ 0 \in q
                      r == IF up THEN bigAdd(q, {0}) ELSE q
                  IN  {i + sh : i \in r}

\* x * y and x + y of two JS numbers
fmul(x, y) == {i - FRACTION_BITS : i \in round53(bigMul(x, y))}
fadd(x, y) == round53(bigAdd(x, y))

\* 1 - a < 0
exceedsOne(a) ==
    \/ \E i \in a : i > FRACTION_BITS
    \/ FRACTION_BITS \in a /\ a # {FRACTION_BITS}

\* Math.sin(x) and Math.cos(x), x the double nearest to mdeg / 1000 degrees
\* in radians (for 90 degrees, that is Math.PI / 2)
MathSin(mdeg) ==
    CASE mdeg = 0 -> {}
      [] mdeg = 90000 -> {FRACTION_BITS}
      [] mdeg = 1000 -> bitsOf(<<0, 1144, 631, 3246, 1986, 71>>)
      [] mdeg = 2500 -> bitsOf(<<0, 136, 1191, 3619, 2723, 178>>)
      [] mdeg = 5000 -> bitsOf(<<0, 32, 641, 2956, 4054, 356>>)
      [] mdeg = 8000 -> bitsOf(<<0, 800, 2876, 721, 217, 570>>)
      [] mdeg = 10000 -> bitsOf(<<0, 288, 1767, 4033, 1076, 711>>)
      [] mdeg = 12000 -> bitsOf(<<0, 3776, 1201, 1416, 2483, 851>>)
      [] mdeg = 15000 -> bitsOf(<<0, 1024, 3098, 100, 503, 1060>>)

MathCos(mdeg) ==
    CASE mdeg = 0 -> {FRACTION_BITS}
      [] mdeg = 1000 -> bitsOf(<<0, 1280, 3452, 3066, 1540, 4095>>)
      [] mdeg = 2500 -> bitsOf(<<0, 2944, 559, 3309, 415, 4092>>)
      [] mdeg = 5000 -> bitsOf(<<0, 256, 173, 2572, 1693, 4080>>)
      [] mdeg = 8000 -> bitsOf(<<0, 3328, 1187, 1176, 565, 4056>>)
      [] mdeg = 10000 -> bitsOf(<<0, 2944, 2272, 1600, 3164, 4033>>)
      [] mdeg = 12000 -> bitsOf(<<0, 0, 4, 2365, 2017, 4006>>)
      [] mdeg = 15000 -> bitsOf(<<0, 2688, 1528, 932, 1770, 3956>>)

TrigLats == {1000, 2500, 5000, 8000, 10000, 12000, 15000}

\* const a = ... of calculateDistance
haversineA(lat1, lat2, dLon) ==
    LET sinDLat == MathSin(Abs(lat2 - lat1) \div 2)
        sinDLon == MathSin(Abs(dLon) \div 2)
    IN  fadd(fmul(sinDLat, sinDLat),
             fmul(fmul(fmul(MathCos(Abs(lat1)), MathCos(Abs(lat2))), sinDLon),
                  sinDLon))

calculateDistance(lat1, lon1, lat2, lon2) ==
    IF lat1 = None \/ lon1 = None \/ lat2 = None \/ lon2 = None THEN None
    ELSE CASE lon1 = lon2 ->
                LET dLat == Abs(lat2[1] - lat1[1])
                IN  Some(dLat * (METRES_PER_DEGREE \div 1000)
                         + (dLat * (METRES_PER_DEGREE % 1000)) \div 1000)
           [] /\ lon1 # lon2
              /\ Abs(lon2[1] - lon1[1]) = 180000
              /\ lat1[1] + lat2[1] = 0
              /\ Abs(lat1[1]) \in TrigLats ->
                IF exceedsOne(haversineA(lat1[1], lat2[1], lon2[1] - lon1[1]))
                THEN None
                ELSE Some(180 * METRES_PER_DEGREE)

----------------------------------------------------------------------------
(* The data the behaviours draw on *)

Reqs == 1..NumReqs

At(day, h, m, s, ms) == day * DAY_MS + h * HOUR_MS + m * MINUTE_MS + s * 1000 + ms

Routes == <<[route_id |-> "R1", route_short_name |-> "1", route_long_name |-> "King"],
            [route_id |-> "R2", route_short_name |-> "2", route_long_name |-> "Queen"]>>

\* T3 names a route the feed lacks; no trip T9 exists
Trips == <<[trip_id |-> "T1", route_id |-> "R1", trip_headsign |-> "East"],
           [trip_id |-> "T2", route_id |-> "R2", trip_headsign |-> "West"],
           [trip_id |-> "T3", route_id |-> "R9", trip_headsign |-> "North"]>>

Num(v) == [kind |-> "num", v |-> v]

\* S2 lies 0.1 degree (about 11 km) north of S1
Stops == <<[stop_id |-> "S1", stop_name |-> "King / Main",
            stop_lat |-> Num(43900), stop_lon |-> Num(-78900)],
           [stop_id |-> "S2", stop_name |-> "Queen / Main",
            stop_lat |-> Num(44000), stop_lon |-> Num(-78900)]>>

StopTime(trip, stop, t) ==
    [trip_id |-> trip, stop_id |-> stop, arrival_time |-> t, departure_time |-> t]

Archive(stopTimes) ==
    [routes |-> Routes, trips |-> Trips, stopTimes |-> stopTimes, stops |-> Stops]

\* The archives upstream serves to the requests of Spec and SpecBurst
MainStopTimes ==
    <<StopTime("T1", "S1", <<14, 0, 0>>),
      StopTime("T2", "S1", <<13, 45, 10>>),
      StopTime("T3", "S1", <<14, 10, 0>>),
      StopTime("T9", "S1", <<14, 20, 0>>),
      StopTime("T2", "S1", <<15, 0, 0>>),
      StopTime("T1", "S2", <<14, 5, 0>>)>>

MainArchive == Archive(MainStopTimes)

\* Two versions of a feed whose stops table has a header row and no stop
NoStopArchive(version) ==
    [routes |-> <<[Routes[1] EXCEPT !.route_long_name = version]>>,
     trips |-> <<[Trips[1] EXCEPT !.trip_headsign = version]>>,
     stopTimes |-> << >>, stops |-> << >>]

\* A live entity: trip, stop, optional arrival and departure (POSIX seconds)
Entity(trip, stop, arr, dep) ==
    [tripUpdate |-> Some([tripId |-> trip,
                          stopTimeUpdate |-> <<[stopId |-> stop,
                                                arrival |-> arr,
                                                departure |-> dep]>>])]

NoTripUpdate == [tripUpdate |-> None]

Secs(t) == t \div 1000

LiveOutcome(kind, entities) == [kind |-> kind, entities |-> entities]

\* T1 is predicted at S1 at 14:03:00 of day 1
LiveT1S1 == <<Entity("T1", "S1", Some(Secs(At(1, 14, 3, 0, 0))), None)>>

LiveFailures == {LiveOutcome(k, << >>) : k \in LiveFailureKinds \ {"timeout"}}

StaticOutcome(kind, archive) == [kind |-> kind, archive |-> archive]

StaticFailures ==
    {StaticOutcome(k, None) : k \in {"neterr", "timeout", "empty", "missing"}}

\* A query parameter as searchParams.get returns it
Absent == [kind |-> "absent", v |-> 0]
EmptyText == [kind |-> "empty", v |-> 0]
Text == [kind |-> "text", v |-> 0]

\* (lat, lon) of the requests
ValidQuery == <<Num(43900), Num(-78900)>>
Queries == {ValidQuery, <<Absent, Num(-78900)>>, <<Num(43900), EmptyText>>,
            <<Num(43900), Text>>}

----------------------------------------------------------------------------
(* State *)

IdleReq == [pc |-> "idle", lat |-> [kind |-> "absent", v |-> 0],
            lon |-> [kind |-> "absent", v |-> 0], gtfsData |-> None,
            fetchAt |-> 0, cacheHit |-> FALSE, failure |-> "",
            status |-> 0, stops |-> << >>]

NoParse == [timeStr |-> <<0, 0, 0>>, wallNow |-> 0, result |-> 0, called |-> FALSE]

IdleRouteReq ==
    [pc |-> "idle", routeId |-> "", fetchAt |-> 0, outcome |-> None,
     status |-> 0, body |-> None]

NoMeasure ==
    [called |-> FALSE, a |-> <<0, 0>>, b |-> <<0, 0>>,
     ab |-> None, ba |-> None, aa |-> None]

InitAt(t, cache) ==
    /\ clock = t
    /\ nticks = 0
    /\ gtfsCache = cache
    /\ req = [r \in Reqs |-> IdleReq]
    /\ res = [r \in Reqs |-> << >>]
    /\ staticFetches = 0
    /\ liveFetches = 0
    /\ parsed = NoParse
    /\ routeReq = IdleRouteReq
    /\ measured = NoMeasure

----------------------------------------------------------------------------
(* getUpcomingArrivals(stopId, gtfsData) *)

\* Up to its await: now is captured, the live-feed request goes out, the
\* timer is set
startResolver_shared(stopId, t, first) ==
    [pc |-> "racing", stopId |-> stopId, now |-> t,
     fetch |-> IF first THEN "inflight" ELSE "none", issuedAt |-> t,
     outcome |-> None, result |-> None, winner |-> "none", wallNow |-> 0,
     upcoming |-> << >>, arrivals |-> << >>, caught |-> FALSE,
     rejected |-> FALSE]

startResolver(stopId, t, first) ==
    [pc |-> "racing", stopId |-> stopId, now |-> t, fetch |-> "inflight",
     issuedAt |-> t, outcome |-> None, result |-> None, winner |-> "none",
     wallNow |-> 0, upcoming |-> << >>, arrivals |-> << >>, caught |-> FALSE,
     rejected |-> FALSE]

\* parseGtfsTime(undefined) throws a TypeError at timeStr.split: the loop
\* throws if a stop-time of the stop whose trip and route are found lacks
\* arrival_time or departure_time (a stop_times.txt without that column)
loopThrows(stopId, gtfsData) ==
    \E k \in 1..Len(gtfsData.stopTimes) :
        LET st == gtfsData.stopTimes[k]
            trip == Find(gtfsData.trips, LAMBDA x : x.trip_id = st.trip_id)
        IN  /\ st.stop_id = stopId
            /\ trip # None
            /\ Find(gtfsData.routes, LAMBDA x : x.route_id = trip[1].route_id) # None
            /\ (st.arrival_time = None \/ st.departure_time = None)

\* catch (error) { console.error(...); return []; }
afterCatch_rethrows(rs, winner, t) ==
    [rs EXCEPT !.pc = "done", !.winner = winner, !.wallNow = t, !.caught = TRUE,
               !.rejected = TRUE, !.upcoming = << >>, !.arrivals = << >>]

afterCatch(rs, winner, t) ==
    [rs EXCEPT !.pc = "done", !.winner = winner, !.wallNow = t, !.caught = TRUE,
               !.upcoming = << >>, !.arrivals = << >>]

\* From the settling of Promise.race to the return
finishResolver(rs, gtfsData, raced, winner, t) ==
    IF raced.rejected \/ loopThrows(rs.stopId, gtfsData)
    THEN afterCatch(rs, winner, t)
    ELSE LET upcoming == upcomingSorted(rs.stopId, gtfsData, raced.value,
                                        rs.now, t)
         IN  [rs EXCEPT !.pc = "done", !.winner = winner, !.wallNow = t,
                        !.upcoming = upcoming,
                        !.arrivals = sliceArrivals(upcoming)]

\* The live-feed request settles after the timer has settled the race: the
\* promise of getRealtimeTripUpdates resolves and nobody reads its value
lateResult_recomputes(settled, gtfsData, raced, t) ==
    finishResolver(settled, gtfsData, raced, "fetch", t)

lateResult(settled, gtfsData, raced, t) == settled

----------------------------------------------------------------------------
(* GET *)

Falsy(p) == p.kind \in {"absent", "empty"}

\* Array.prototype.sort((a, b) => a.distance - b.distance) is stable: an
\* element goes after the elements of smaller distance and after the earlier
\* elements of equal distance
distanceRank_tiesReversed(seq, i) ==
    Cardinality({j \in 1..Len(seq) :
        \/ seq[j].distance[1] < seq[i].distance[1]
        \/ seq[j].distance[1] = seq[i].distance[1] /\ j > i}) + 1

distanceRank(seq, i) ==
    Cardinality({j \in 1..Len(seq) :
        \/ seq[j].distance[1] < seq[i].distance[1]
        \/ seq[j].distance[1] = seq[i].distance[1] /\ j < i}) + 1

sortByDistance(seq) ==
    [p \in 1..Len(seq) |->
        seq[CHOOSE i \in 1..Len(seq) : distanceRank(seq, i) = p]]

\* .filter((stop) => stop.distance <= radius): a comparison with NaN is false
inRadius_all(allStops) == Filter(allStops, LAMBDA s : s.distance # None)

inRadius(allStops) ==
    Filter(allStops, LAMBDA s : /\ s.distance # None
                                /\ s.distance[1] <= RADIUS_KM * 1000)

\* .slice(0, 60)
sliceStops_uncapped(sorted) == sorted

sliceStops(sorted) == Slice0(sorted, MAX_RESULTS)

\* The body of the 200 response, once every getUpcomingArrivals has returned
nearbyStops(rq, resolvers) ==
    LET stops == rq.gtfsData[1].stops
        allStops ==
            [i \in 1..Len(stops) |->
                [id |-> stops[i].stop_id,
                 name |-> stops[i].stop_name,
                 latitude |-> parseFloat(stops[i].stop_lat),
                 longitude |-> parseFloat(stops[i].stop_lon),
                 distance |-> calculateDistance(parseFloat(rq.lat),
                                                parseFloat(rq.lon),
                                                parseFloat(stops[i].stop_lat),
                                                parseFloat(stops[i].stop_lon)),
                 arrivals |-> resolvers[i].arrivals]]
    IN  sliceStops(sortByDistance(inRadius(allStops)))

\* Promise.all settles when the last getUpcomingArrivals returns, or rejects
\* with the first of them that rejects, which the catch of GET answers with
\* 500; the response follows in the same turn of the event loop
respondIfAll_awaitsFetches(rq, resolvers) ==
    IF \A i \in 1..Len(resolvers) :
          resolvers[i].pc = "done" /\ resolvers[i].fetch # "inflight"
    THEN [rq EXCEPT !.pc = "done", !.status = 200,
                    !.stops = nearbyStops(rq, resolvers)]
    ELSE rq

respondIfAll(rq, resolvers) ==
    IF \E i \in 1..Len(resolvers) : resolvers[i].rejected
    THEN [rq EXCEPT !.pc = "done", !.status = 500]
    ELSE IF \A i \in 1..Len(resolvers) : resolvers[i].pc = "done"
    THEN [rq EXCEPT !.pc = "done", !.status = 200,
                    !.stops = nearbyStops(rq, resolvers)]
    ELSE rq

\* stops.map(async (stop) => getUpcomingArrivals(...)): every call runs up to
\* its await before the next begins
spawnResolvers(gtfsData, t) ==
    [i \in 1..Len(gtfsData.stops) |->
        startResolver(gtfsData.stops[i].stop_id, t, i = 1)]

\* The catch of GET: downloadAndExtractGTFS has thrown
failureResponse_empty200(rq, kind) ==
    [rq EXCEPT !.pc = "done", !.failure = kind, !.status = 200]

failureResponse(rq, kind) ==
    [rq EXCEPT !.pc = "done", !.failure = kind, !.status = 500]

\* The catch of downloadAndExtractGTFS logs and rethrows: it assigns nothing
cacheAfterFailure_reset(cache) == None

cacheAfterFailure(cache) == cache

\* The object literal of lines 314-320: the four parsed tables and Date.now()
\* of the moment the download completed (fetchAt is when it was requested)
newSnapshot_stampedAtRequest(archive, fetchAt, t) ==
    [routes |-> archive.routes, trips |-> archive.trips,
     stopTimes |-> archive.stopTimes, stops |-> archive.stops,
     lastUpdated |-> fetchAt]

newSnapshot(archive, fetchAt, t) ==
    [routes |-> archive.routes, trips |-> archive.trips,
     stopTimes |-> archive.stopTimes, stops |-> archive.stops,
     lastUpdated |-> t]

\* gtfsCache = {...}: the slot is assigned the new object; the object it held
\* is not written to
replaceCache_inPlace(cache, snapshot) ==
    IF cache = None THEN Some(snapshot)
    ELSE Some([cache[1] EXCEPT !.routes = snapshot.routes,
                               !.lastUpdated = snapshot.lastUpdated])

replaceCache(cache, snapshot) == Some(snapshot)

cacheFresh_inclusive(cache, t) ==
    cache # None /\ t - cache[1].lastUpdated <= CACHE_DURATION

\* downloadAndExtractGTFS, line 260
cacheFresh(cache, t) ==
    cache # None /\ t - cache[1].lastUpdated < CACHE_DURATION

\* GET from its entry to its first suspension (or to its response)
GET(r, lat, lon) ==
    /\ req[r].pc = "idle"
    /\ UNCHANGED <<clock, nticks, parsed, routeReq, measured>>
    /\ IF Falsy(lat) \/ Falsy(lon)
       THEN /\ req' = [req EXCEPT ![r] = [@ EXCEPT !.pc = "done", !.lat = lat,
                                                   !.lon = lon, !.status = 400]]
            /\ UNCHANGED <<gtfsCache, res, staticFetches, liveFetches>>
       ELSE IF cacheFresh(gtfsCache, clock)
       THEN LET resolvers == spawnResolvers(gtfsCache[1], clock)
                rq == [req[r] EXCEPT !.pc = "resolving", !.lat = lat,
                                     !.lon = lon, !.gtfsData = gtfsCache,
                                     !.cacheHit = TRUE]
            IN  /\ req' = [req EXCEPT ![r] = respondIfAll(rq, resolvers)]
                /\ res' = [res EXCEPT ![r] = resolvers]
                /\ liveFetches' = liveFetches +
                       Cardinality({i \in 1..Len(resolvers) :
                                       resolvers[i].fetch = "inflight"})
                /\ UNCHANGED <<gtfsCache, staticFetches>>
       ELSE /\ req' = [req EXCEPT ![r] = [@ EXCEPT !.pc = "download",
                                                   !.lat = lat, !.lon = lon,
                                                   !.fetchAt = clock]]
            /\ staticFetches' = staticFetches + 1
            /\ UNCHANGED <<gtfsCache, res, liveFetches>>

\* The static download settles: downloadAndExtractGTFS from line 276 on, and
\* GET up to its next suspension (or to its response)
downloadSettles(r, o) ==
    /\ req[r].pc = "download"
    /\ IF o.kind = "timeout"
       THEN clock - req[r].fetchAt >= STATIC_AXIOS_TIMEOUT
       ELSE clock - req[r].fetchAt < STATIC_AXIOS_TIMEOUT
    /\ UNCHANGED <<clock, nticks, parsed, routeReq, measured, staticFetches>>
    /\ IF o.kind = "ok"
       THEN LET cache == replaceCache(gtfsCache,
                                      newSnapshot(o.archive[1], req[r].fetchAt,
                                                  clock))
                resolvers == spawnResolvers(cache[1], clock)
                rq == [req[r] EXCEPT !.pc = "resolving", !.gtfsData = cache]
            IN  /\ gtfsCache' = cache
                /\ req' = [req EXCEPT ![r] = respondIfAll(rq, resolvers)]
                /\ res' = [res EXCEPT ![r] = resolvers]
                /\ liveFetches' = liveFetches +
                       Cardinality({i \in 1..Len(resolvers) :
                                       resolvers[i].fetch = "inflight"})
       ELSE /\ req' = [req EXCEPT ![r] = failureResponse(@, o.kind)]
            /\ gtfsCache' = cacheAfterFailure(gtfsCache)
            /\ UNCHANGED <<res, liveFetches>>

\* The live-feed request of one getUpcomingArrivals call settles
liveFetchSettles(r, i, o) ==
    /\ i \in 1..Len(res[r])
    /\ res[r][i].fetch = "inflight"
    /\ IF o.kind = "timeout"
       THEN clock - res[r][i].issuedAt >= LIVE_AXIOS_TIMEOUT
       ELSE clock - res[r][i].issuedAt < LIVE_AXIOS_TIMEOUT
    /\ UNCHANGED <<clock, nticks, parsed, routeReq, measured, gtfsCache,
                   staticFetches, liveFetches>>
    /\ \E resolvers \in
             {LET result == getRealtimeTripUpdates(o)
                  settled == [res[r][i] EXCEPT !.fetch = "settled",
                                               !.outcome = Some(o),
                                               !.result = Some(result)]
                  rs == IF res[r][i].pc = "racing"
                        THEN finishResolver(settled, req[r].gtfsData[1], result,
                                            "fetch", clock)
                        ELSE lateResult(settled, req[r].gtfsData[1], result, clock)
              IN  [res[r] EXCEPT ![i] = rs]} :
           /\ res' = [res EXCEPT ![r] = resolvers]
           /\ req' = [req EXCEPT ![r] =
                        IF @.pc = "resolving" THEN respondIfAll(@, resolvers)
                        ELSE @]

\* The 5-second timer of one getUpcomingArrivals call fires first
timerFires(r, i) ==
    /\ i \in 1..Len(res[r])
    /\ res[r][i].pc = "racing"
    /\ clock >= res[r][i].now + RESOLVER_TIMEOUT
    /\ UNCHANGED <<clock, nticks, parsed, routeReq, measured, gtfsCache,
                   staticFetches, liveFetches>>
    /\ \E resolvers \in
             {[res[r] EXCEPT ![i] = finishResolver(@, req[r].gtfsData[1],
                                                   Resolved(timerValue), "timer",
                                                   clock)]} :
           /\ res' = [res EXCEPT ![r] = resolvers]
           /\ req' = [req EXCEPT ![r] =
                        IF @.pc = "resolving" THEN respondIfAll(@, resolvers)
                        ELSE @]

----------------------------------------------------------------------------
(* GET /api/routes/[routeId] (routes/[routeId]/route.ts).  The handler     *)
(* keeps no cache: every request downloads the archive.  The tables of the *)
(* archive are optional here, a table being None when the archive has no   *)
(* such entry; stop_sequence is the number its text coerces to.            *)

\* trips.filter((trip) => trip.route_id === routeId)
routeTrips(trips, routeId) == Filter(trips, LAMBDA trip : trip.route_id = routeId)

\* Array.prototype.sort((a, b) => a.stop_sequence - b.stop_sequence), stable
sequenceRank_descending(seq, i) ==
    Cardinality({j \in 1..Len(seq) :
        \/ seq[j].stop_sequence > seq[i].stop_sequence
        \/ seq[j].stop_sequence = seq[i].stop_sequence /\ j < i}) + 1

sequenceRank(seq, i) ==
    Cardinality({j \in 1..Len(seq) :
        \/ seq[j].stop_sequence < seq[i].stop_sequence
        \/ seq[j].stop_sequence = seq[i].stop_sequence /\ j < i}) + 1

sortBySequence(seq) ==
    [p \in 1..Len(seq) |->
        seq[CHOOSE i \in 1..Len(seq) : sequenceRank(seq, i) = p]]

tripStopTimes(stopTimes, representativeTrip) ==
    sortBySequence(Filter(stopTimes,
                          LAMBDA st : st.trip_id = representativeTrip.trip_id))

\* stop?.stop_name || "": the fields of a stop the stops table lacks are ""
stopSequence(sorted, stops) ==
    [p \in 1..Len(sorted) |->
        LET st == sorted[p]
            stop == Find(stops, LAMBDA x : x.stop_id = st.stop_id)
        IN  [stop_id |-> st.stop_id,
             stop_name |-> IF stop = None THEN "" ELSE stop[1].stop_name,
             stop_lat |-> IF stop = None THEN EmptyText ELSE stop[1].stop_lat,
             stop_lon |-> IF stop = None THEN EmptyText ELSE stop[1].stop_lon,
             arrival_time |-> st.arrival_time,
             departure_time |-> st.departure_time]]

\* Array.from(new Set(routeTrips.map((trip) => trip.trip_headsign))): each
\* headsign once, in the order of its first trip
directions(trips) ==
    LET firsts == {i \in 1..Len(trips) :
                      \A j \in 1..(i - 1) :
                          trips[j].trip_headsign # trips[i].trip_headsign}
    IN  [p \in 1..Cardinality(firsts) |->
            trips[CHOOSE i \in firsts :
                     Cardinality({j \in firsts : j < i}) = p - 1].trip_headsign]

routeResponse(status, body) == [status |-> status, body |-> body]

\* The handler from the settling of axios.get to its response
routeDetails(o, routeId) ==
    IF o.kind # "ok" THEN routeResponse(500, None)
    ELSE IF o.archive[1].trips = None THEN routeResponse(500, None)
    ELSE LET rt == routeTrips(o.archive[1].trips[1], routeId)
         IN  IF Len(rt) = 0 THEN routeResponse(404, None)
             ELSE IF o.archive[1].stopTimes = None THEN routeResponse(500, None)
             ELSE IF o.archive[1].stops = None THEN routeResponse(500, None)
             ELSE routeResponse(200,
                    Some([route_id |-> routeId,
                          directions |-> directions(rt),
                          stops |-> stopSequence(
                                       tripStopTimes(o.archive[1].stopTimes[1],
                                                     rt[1]),
                                       o.archive[1].stops[1]),
                          total_trips |-> Len(rt)]))

\* GET up to its await
routeGET(routeId) ==
    /\ routeReq.pc \in {"idle", "done"}
    /\ routeReq' = [IdleRouteReq EXCEPT !.pc = "download", !.routeId = routeId,
                                        !.fetchAt = clock]
    /\ UNCHANGED <<clock, nticks, gtfsCache, req, res, staticFetches, liveFetches,
                   parsed, measured>>

\* The download settles: GET from line 44 to its response
routeDownloadSettles(o) ==
    /\ routeReq.pc = "download"
    /\ IF o.kind = "timeout"
       THEN clock - routeReq.fetchAt >= STATIC_AXIOS_TIMEOUT
       ELSE clock - routeReq.fetchAt < STATIC_AXIOS_TIMEOUT
    /\ LET response == routeDetails(o, routeReq.routeId)
       IN  routeReq' = [routeReq EXCEPT !.pc = "done", !.outcome = Some(o),
                                        !.status = response.status,
                                        !.body = response.body]
    /\ UNCHANGED <<clock, nticks, gtfsCache, req, res, staticFetches, liveFetches,
                   parsed, measured>>

\* The getUpcomingArrivals calls of request r whose live-feed request is out
InFlightOf(r) == {i \in 1..Len(res[r]) : res[r][i].fetch = "inflight"}

\* Time passes, but not beyond the moment a pending timer is due
Tick(d) ==
    /\ nticks < MaxTicks
    /\ \A r \in Reqs : \A i \in 1..Len(res[r]) :
          res[r][i].pc = "racing" => clock + d <= res[r][i].now + RESOLVER_TIMEOUT
    /\ clock' = clock + d
    /\ nticks' = nticks + 1
    /\ UNCHANGED <<gtfsCache, req, res, staticFetches, liveFetches, parsed,
                   routeReq, measured>>

----------------------------------------------------------------------------
(* Spec: concurrent requests against the static cache.  The process starts *)
(* with an empty cache slot at 13:45:00.000 of day 1; upstream serves one  *)
(* of two versions of a feed that lists no stop, so that GET has no        *)
(* getUpcomingArrivals call to wait for.                                   *)

CacheTicks == {400, CACHE_DURATION}

CacheStaticOutcomes ==
    {StaticOutcome("neterr", None), StaticOutcome("timeout", None),
     StaticOutcome("empty", None), StaticOutcome("missing", None),
     StaticOutcome("ok", Some(NoStopArchive("King"))),
     StaticOutcome("ok", Some(NoStopArchive("King St")))}

CacheQueries == {ValidQuery, <<Absent, Num(-78900)>>}

Init == InitAt(At(1, 13, 45, 0, 0), None)

Next ==
    \/ \E r \in Reqs : \E q \in CacheQueries : GET(r, q[1], q[2])
    \/ \E r \in Reqs : \E o \in CacheStaticOutcomes : downloadSettles(r, o)
    \/ \E d \in CacheTicks : Tick(d)

Spec == Init /\ [][Next]_vars

----------------------------------------------------------------------------
(* SpecBurst: one request against the two-stop feed, with every outcome of *)
(* the static download and of the live-feed requests.                      *)

BurstTicks == {400, RESOLVER_TIMEOUT, LIVE_AXIOS_TIMEOUT}

BurstStaticOutcomes == StaticFailures \cup {StaticOutcome("ok", Some(MainArchive))}

BurstLiveOutcomes ==
    LiveFailures \cup {LiveOutcome("timeout", << >>), LiveOutcome("ok", << >>),
                       LiveOutcome("ok", LiveT1S1)}

NextBurst ==
    \/ \E q \in Queries : GET(1, q[1], q[2])
    \/ \E o \in BurstStaticOutcomes : downloadSettles(1, o)
    \/ \E i \in 1..Len(Stops) : \E o \in BurstLiveOutcomes :
          liveFetchSettles(1, i, o)
    \/ \E i \in 1..Len(Stops) : timerFires(1, i)
    \/ \E d \in BurstTicks : Tick(d)

SpecBurst == Init /\ [][NextBurst]_vars

----------------------------------------------------------------------------
(* SpecArr: getUpcomingArrivals over drawn snapshots.  The cache slot      *)
(* holds a fresh snapshot with the single stop S1; its stop_times table is *)
(* drawn from three families: up to two rows around the edges of the       *)
(* window and of the day, MaxStopTimes rows within the window, and the     *)
(* table of the main feed.                                                 *)

ArrClocks == {At(1, 13, 45, 0, 0), At(1, 23, 59, 59, 800)}

EdgeTimes ==
    {<<13, 45, 0>>, <<13, 45, 10>>, <<13, 45, 30>>, <<14, 0, 0>>, <<15, 45, 0>>,
     <<15, 45, 1>>, <<13, 40, 0>>, <<23, 50, 0>>, <<0, 10, 0>>, <<24, 10, 0>>,
     <<25, 30, 0>>}

EdgeRows ==
    {StopTime("T1", "S1", t) : t \in EdgeTimes}
    \cup {StopTime("T3", "S1", <<14, 0, 0>>), StopTime("T9", "S1", <<14, 0, 0>>),
          StopTime("T2", "S2", <<14, 0, 0>>), StopTime("T2", "S1", <<14, 0, 0>>)}

CapRows == {StopTime("T1", "S1", <<14, 0, 0>>), StopTime("T2", "S1", <<13, 50, 0>>)}

SeqsOf(S, n) == UNION {[1..k -> S] : k \in 0..n}

ArrStopTimes ==
    SeqsOf(EdgeRows, 2) \cup [1..MaxStopTimes -> CapRows] \cup {MainStopTimes}

ArrSnapshot(stopTimes, t) ==
    [routes |-> Routes, trips |-> Trips, stopTimes |-> stopTimes,
     stops |-> <<Stops[1]>>, lastUpdated |-> t]

LiveElsewhere ==
    <<NoTripUpdate,
      Entity("T1", "S2", Some(Secs(At(1, 14, 3, 0, 0))), None),
      Entity("T5", "S1", Some(Secs(At(1, 14, 3, 0, 0))), None)>>

LiveDepartureOnly ==
    <<Entity("T1", "S1", None, Some(Secs(At(1, 14, 4, 0, 0))))>>

LiveEarly ==
    <<Entity("T1", "S1", Some(Secs(At(1, 13, 58, 20, 0))),
                         Some(Secs(At(1, 13, 58, 40, 0)))),
      Entity("T1", "S1", Some(Secs(At(1, 14, 30, 0, 0))), None)>>

\* T1 is predicted at S1 at 00:13:00 of day 2
LiveAfterMidnight == <<Entity("T1", "S1", Some(Secs(At(2, 0, 13, 0, 0))), None)>>

ArrLiveOutcomes ==
    {LiveOutcome("neterr", << >>), LiveOutcome("ok", << >>),
     LiveOutcome("ok", LiveT1S1), LiveOutcome("ok", LiveElsewhere),
     LiveOutcome("ok", LiveDepartureOnly), LiveOutcome("ok", LiveEarly),
     LiveOutcome("ok", LiveAfterMidnight)}

ArrTicks == {400, RESOLVER_TIMEOUT}

InitArr ==
    \E t \in ArrClocks : \E st \in ArrStopTimes :
        InitAt(t, Some(ArrSnapshot(st, t)))

NextArr ==
    \/ GET(1, ValidQuery[1], ValidQuery[2])
    \/ \E o \in ArrLiveOutcomes : liveFetchSettles(1, 1, o)
    \/ timerFires(1, 1)
    \/ \E d \in ArrTicks : Tick(d)

SpecArr == InitArr /\ [][NextArr]_vars

----------------------------------------------------------------------------
(* SpecNear: the nearby-stops response over drawn stops tables.  The cache *)
(* slot holds a fresh snapshot without stop-times; its stops table is      *)
(* either up to three stops drawn from a family around the query point     *)
(* (in the radius, tied, beyond it, with an unreadable latitude), in any   *)
(* order, or a table of MAX_RESULTS + 3 stops of which all but one lie in  *)
(* the radius.  The live-feed requests, one per stop, are answered in the  *)
(* order they were sent.                                                   *)

StopAt(id, lat) ==
    [stop_id |-> id, stop_name |-> id, stop_lat |-> lat, stop_lon |-> Num(-78900)]

\* S3 and S4 lie 4 thousandths of a degree south and north of the query
\* point of ValidQuery; S6 lies just inside the radius, S7 just outside
NearStops ==
    {StopAt("S1", Num(43900)), StopAt("S2", Num(44000)), StopAt("S3", Num(43896)),
     StopAt("S4", Num(43904)), StopAt("S5", Num(43950)), StopAt("S6", Num(43989)),
     StopAt("S7", Num(43990)), StopAt("S8", Text)}

BigIds ==
    <<"B01", "B02", "B03", "B04", "B05", "B06", "B07", "B08", "B09", "B10", "B11", "B12", "B13", "B14", "B15", "B16", "B17", "B18", "B19", "B20", "B21", "B22", "B23", "B24", "B25", "B26", "B27", "B28", "B29", "B30", "B31", "B32", "B33", "B34", "B35", "B36", "B37", "B38", "B39", "B40", "B41", "B42", "B43", "B44", "B45", "B46", "B47", "B48", "B49", "B50", "B51", "B52", "B53", "B54", "B55", "B56", "B57", "B58", "B59", "B60", "B61", "B62", "B63">>

\* Stop k of the big table lies ((37 k) mod 64) + 1 thousandths of a degree
\* north of the query point, the last one 0.2 degree north of it
BigStops ==
    [k \in 1..(MAX_RESULTS + 3) |->
        StopAt(BigIds[k],
               IF k = MAX_RESULTS + 3 THEN Num(44100)
               ELSE Num(43900 + ((37 * k) % 64) + 1))]

NearTables == SeqsOf(NearStops, 3) \cup {BigStops}

NearSnapshot(stops, t) ==
    [routes |-> Routes, trips |-> Trips, stopTimes |-> << >>,
     stops |-> stops, lastUpdated |-> t]

NearQueries == {ValidQuery, <<Num(43950), Num(-78900)>>, <<Text, Num(-78900)>>}

FirstInFlight == MinOf(InFlightOf(1))

InitNear ==
    \E stops \in NearTables :
        InitAt(At(1, 13, 45, 0, 0), Some(NearSnapshot(stops, At(1, 13, 45, 0, 0))))

NextNear ==
    \/ \E q \in NearQueries : GET(1, q[1], q[2])
    \/ /\ InFlightOf(1) # {}
       /\ liveFetchSettles(1, FirstInFlight, LiveOutcome("ok", << >>))

SpecNear == InitNear /\ [][NextNear]_vars

----------------------------------------------------------------------------
(* SpecRoute: requests to /api/routes/[routeId], one after the other, over *)
(* drawn archives: the trips of route R1 in two orders, the stop-times of  *)
(* its trips in every order of three rows, archives that lack a table, and *)
(* downloads that fail.                                                    *)

RouteTrip(trip, route, headsign) ==
    [trip_id |-> trip, route_id |-> route, trip_headsign |-> headsign]

RouteTripsTables ==
    {<<RouteTrip("T1", "R1", "East"), RouteTrip("T2", "R2", "West"),
       RouteTrip("T4", "R1", "West"), RouteTrip("T5", "R1", "East")>>,
     <<RouteTrip("T4", "R1", "West"), RouteTrip("T1", "R1", "East"),
       RouteTrip("T5", "R1", "East"), RouteTrip("T2", "R2", "West")>>}

SequencedStopTime(trip, stop, sequence, t) ==
    [trip_id |-> trip, stop_id |-> stop, stop_sequence |-> sequence,
     arrival_time |-> t, departure_time |-> t]

\* T1 calls at S1, S2 and then S9, a stop the stops table lacks
T1Rows ==
    <<SequencedStopTime("T1", "S1", 2, <<14, 0, 0>>),
      SequencedStopTime("T1", "S2", 9, <<14, 5, 0>>),
      SequencedStopTime("T1", "S9", 10, <<14, 9, 0>>)>>

Permutations3 ==
    {<<1, 2, 3>>, <<1, 3, 2>>, <<2, 1, 3>>, <<2, 3, 1>>, <<3, 1, 2>>, <<3, 2, 1>>}

RouteStopTimesTables ==
    {<<SequencedStopTime("T4", "S2", 2, <<15, 0, 0>>), T1Rows[p[1]],
       SequencedStopTime("T2", "S1", 1, <<13, 50, 0>>), T1Rows[p[2]],
       SequencedStopTime("T4", "S1", 1, <<14, 55, 0>>), T1Rows[p[3]]>> :
     p \in Permutations3}

RouteArchive(trips, stopTimes, stops) ==
    [trips |-> trips, stopTimes |-> stopTimes, stops |-> stops]

RouteArchives ==
    {RouteArchive(Some(t), Some(st), Some(Stops)) :
        t \in RouteTripsTables, st \in RouteStopTimesTables}
    \cup {RouteArchive(None, Some(st), Some(Stops)) : st \in RouteStopTimesTables}
    \cup {RouteArchive(Some(t), None, Some(Stops)) : t \in RouteTripsTables}
    \cup {RouteArchive(Some(t), Some(st), None) :
              t \in RouteTripsTables, st \in RouteStopTimesTables}

RouteOutcomes ==
    {StaticOutcome("neterr", None), StaticOutcome("timeout", None)}
    \cup {StaticOutcome("ok", Some(a)) : a \in RouteArchives}

RouteIds == {"R1", "R2", "R9"}

RouteTicks == {400, STATIC_AXIOS_TIMEOUT}

NextRoute ==
    \/ \E routeId \in RouteIds : routeGET(routeId)
    \/ \E o \in RouteOutcomes : routeDownloadSettles(o)
    \/ \E d \in RouteTicks : Tick(d)

SpecRoute == Init /\ [][NextRoute]_vars

----------------------------------------------------------------------------
(* SpecThrow: one request against the two-stop feed, whose stop_times.txt  *)
(* either is that of the main feed or has no arrival_time column: every    *)
(* row of it lacks the field.  In the latter S1 has a stop-time of T1 and  *)
(* S2 one of T9, a trip the feed lacks.                                    *)

NoArrivalColumn(stopTimes) ==
    [k \in 1..Len(stopTimes) |-> [stopTimes[k] EXCEPT !.arrival_time = None]]

NoArrivalArchive ==
    Archive(NoArrivalColumn(<<StopTime("T1", "S1", <<14, 0, 0>>),
                              StopTime("T9", "S2", <<14, 5, 0>>)>>))

ThrowStaticOutcomes ==
    {StaticOutcome("neterr", None), StaticOutcome("ok", Some(MainArchive)),
     StaticOutcome("ok", Some(NoArrivalArchive))}

ThrowLiveOutcomes ==
    {LiveOutcome("neterr", << >>), LiveOutcome("ok", << >>),
     LiveOutcome("ok", LiveT1S1)}

\* The second query point lies midway between S1 and S2, 5.5 km from each
ThrowQueries == {ValidQuery, <<Num(43950), Num(-78900)>>}

ThrowTicks == {400, RESOLVER_TIMEOUT}

NextThrow ==
    \/ \E q \in ThrowQueries : GET(1, q[1], q[2])
    \/ \E o \in ThrowStaticOutcomes : downloadSettles(1, o)
    \/ \E i \in 1..Len(Stops) : \E o \in ThrowLiveOutcomes :
          liveFetchSettles(1, i, o)
    \/ \E i \in 1..Len(Stops) : timerFires(1, i)
    \/ \E d \in ThrowTicks : Tick(d)

SpecThrow == Init /\ [][NextThrow]_vars

----------------------------------------------------------------------------
(* SpecLive: one request against a two-stop feed under the scheduling of   *)
(* the runtime.  Time passes while a timer is pending, the 5-second timer  *)
(* of a getUpcomingArrivals call or the 10-second timeout of the static    *)
(* download, and never beyond the moment the earliest of them is due; a    *)
(* timer that is due fires; the static download completes or errors.  The  *)
(* live-feed requests are under no obligation to settle.                   *)

\* The moments at which the pending timers are due
PendingDeadlines ==
    {req[r].fetchAt + STATIC_AXIOS_TIMEOUT : r \in {x \in Reqs : req[x].pc = "download"}}
    \cup UNION {{res[r][i].now + RESOLVER_TIMEOUT :
                    i \in {k \in 1..Len(res[r]) : res[r][k].pc = "racing"}} :
                r \in Reqs}

TimePasses(d) ==
    /\ PendingDeadlines # {}
    /\ \A t \in PendingDeadlines : clock + d <= t
    /\ clock' = clock + d
    /\ nticks' = nticks + 1
    /\ UNCHANGED <<gtfsCache, req, res, staticFetches, liveFetches, parsed,
                   routeReq, measured>>

LiveTicks == {2500, RESOLVER_TIMEOUT}

LiveQueries == {ValidQuery, <<Absent, Num(-78900)>>}

\* A feed with one stop-time at each of the two stops
LiveArchive ==
    Archive(<<StopTime("T1", "S1", <<14, 0, 0>>), StopTime("T2", "S2", <<14, 5, 0>>)>>)

LiveStaticOutcomes ==
    {StaticOutcome("neterr", None), StaticOutcome("timeout", None),
     StaticOutcome("ok", Some(LiveArchive))}

LiveLiveOutcomes ==
    {LiveOutcome("neterr", << >>), LiveOutcome("ok", << >>),
     LiveOutcome("ok", LiveT1S1)}

StaticSettles == \E o \in LiveStaticOutcomes : downloadSettles(1, o)

TimerFires == \E i \in 1..Len(Stops) : timerFires(1, i)

TimeGoesOn == \E d \in LiveTicks : TimePasses(d)

NextLive ==
    \/ \E q \in LiveQueries : GET(1, q[1], q[2])
    \/ StaticSettles
    \/ \E i \in 1..Len(Stops) : \E o \in LiveLiveOutcomes :
          liveFetchSettles(1, i, o)
    \/ TimerFires
    \/ TimeGoesOn

SpecLive ==
    /\ Init
    /\ [][NextLive]_vars
    /\ WF_vars(StaticSettles)
    /\ WF_vars(TimerFires)
    /\ WF_vars(TimeGoesOn)

----------------------------------------------------------------------------
(* SpecDist: calculateDistance between drawn points, both ways round: two  *)
(* points of one meridian, or a point and its antipode.                    *)

MeridianLats ==
    {-90000, -45000, -1, 0, 1, 4, 89, 90, 43900, 43904, 44000, 90000}

DistPairs ==
    {<<<<a, -78900>>, <<b, -78900>>>> : a, b \in MeridianLats}
    \cup {<<<<lat, lon>>, <<0 - lat, lon + 180000>>>> :
              lat \in TrigLats, lon \in {0, -90000}}
    \cup {<<<<0 - lat, lon + 180000>>, <<lat, lon>>>> :
              lat \in TrigLats, lon \in {0, -90000}}

measureDistance(a, b) ==
    /\ measured' =
          [called |-> TRUE, a |-> a, b |-> b,
           ab |-> calculateDistance(Some(a[1]), Some(a[2]), Some(b[1]), Some(b[2])),
           ba |-> calculateDistance(Some(b[1]), Some(b[2]), Some(a[1]), Some(a[2])),
           aa |-> calculateDistance(Some(a[1]), Some(a[2]), Some(a[1]), Some(a[2]))]
    /\ UNCHANGED <<clock, nticks, gtfsCache, req, res, staticFetches, liveFetches,
                   parsed, routeReq>>

NextDist == \E pair \in DistPairs : measureDistance(pair[1], pair[2])

SpecDist == Init /\ [][NextDist]_vars

----------------------------------------------------------------------------
(* SpecParse: parseGtfsTime called at drawn times of day *)

ParseClocks == {At(1, 0, 0, 0, 0), At(1, 13, 45, 0, 250), At(1, 23, 59, 59, 800)}

ParseTimes ==
    {<<0, 0, 0>>, <<1, 30, 0>>, <<13, 45, 0>>, <<23, 59, 59>>, <<24, 0, 0>>,
     <<25, 30, 0>>, <<26, 5, 9>>, <<47, 59, 59>>, <<48, 0, 1>>}

ParseTicks == {400, HOUR_MS}

parseCall(timeStr) ==
    /\ parsed' = [timeStr |-> timeStr, wallNow |-> clock,
                  result |-> parseGtfsTime(timeStr, clock), called |-> TRUE]
    /\ UNCHANGED <<clock, nticks, gtfsCache, req, res, staticFetches, liveFetches,
                   routeReq, measured>>

InitParse == \E t \in ParseClocks : InitAt(t, None)

NextParse ==
    \/ \E timeStr \in ParseTimes : parseCall(timeStr)
    \/ \E d \in ParseTicks : Tick(d)

SpecParse == InitParse /\ [][NextParse]_vars

----------------------------------------------------------------------------
(* Properties *)

\* The getUpcomingArrivals calls made so far
Calls == {c \in Reqs \X (1..Len(Stops)) : c[2] <= Len(res[c[1]])}
Call(c) == res[c[1]][c[2]]
Returned == {c \in Calls : Call(c).pc = "done"}

ArrivalsOf(c) == {Call(c).arrivals[k] : k \in 1..Len(Call(c).arrivals)}

\* In this step request r calls downloadAndExtractGTFS
CallsDownload(r) ==
    /\ req[r].pc = "idle"
    /\ req'[r].pc # "idle"
    /\ req'[r].status # 400

\* In this step the static download of request r succeeds
DownloadSucceeds(r) ==
    /\ req[r].pc = "download"
    /\ req'[r].pc # "download"
    /\ req'[r].status # 500

\* What a call of downloadAndExtractGTFS does when the cache is to be used,
\* and when it is not
ServedFromCache(r) ==
    /\ staticFetches' = staticFetches
    /\ gtfsCache' = gtfsCache
    /\ req'[r].gtfsData = gtfsCache

Refetches(r) ==
    /\ staticFetches' = staticFetches + 1
    /\ req'[r].pc = "download"

Replaces(r) ==
    /\ gtfsCache' # None
    /\ gtfsCache'[1].lastUpdated = clock
    /\ req'[r].gtfsData = gtfsCache'

\* C1, as stated: a call refetches if no snapshot is cached or the cached
\* snapshot is older than the time-to-live, and in every other case, an age
\* equal to the time-to-live included, returns the cached snapshot unchanged
\* without a fetch.
C1_Original ==
    [][\A r \in Reqs :
          CallsDownload(r) =>
              IF gtfsCache = None
                 \/ clock - gtfsCache[1].lastUpdated > CACHE_DURATION
              THEN Refetches(r)
              ELSE ServedFromCache(r)]_vars

\* C1, amended: a call refetches if no snapshot is cached or the cached
\* snapshot's age is at least the time-to-live (an age equal to it included),
\* and a fetch that succeeds replaces the cached snapshot; only at an age
\* strictly below the time-to-live is the cached snapshot returned unchanged
\* without a fetch.
C1_RefetchAtTtl ==
    [][\A r \in Reqs :
          /\ CallsDownload(r) =>
                IF gtfsCache = None
                   \/ clock - gtfsCache[1].lastUpdated >= CACHE_DURATION
                THEN Refetches(r)
                ELSE ServedFromCache(r)
          /\ DownloadSucceeds(r) => Replaces(r)]_vars

\* A request is refetching a snapshot whose age was exactly the time-to-live
C1_Witness ==
    \E r \in Reqs :
        /\ req[r].pc = "download"
        /\ gtfsCache # None
        /\ req[r].fetchAt - gtfsCache[1].lastUpdated = CACHE_DURATION

\* C2: a request with valid coordinates whose static feed could not be loaded
\* (fetch failed, response empty, required table missing) ends with status
\* 500 and an error body, never with 200 and a stop list.
C2_StaticFailureIs500 ==
    \A r \in Reqs :
        /\ req[r].failure # "" =>
              /\ req[r].pc = "done"
              /\ req[r].status = 500
              /\ req[r].stops = << >>
        /\ req[r].status = 200 => req[r].failure = "" /\ req[r].gtfsData # None

\* The archive lacked a required table and the request answered 500
C2_Witness ==
    \E r \in Reqs :
        /\ ~Falsy(req[r].lat) /\ ~Falsy(req[r].lon)
        /\ req[r].failure = "missing"
        /\ req[r].status = 500

\* C3: whatever the outcome of the upstream request, getRealtimeTripUpdates
\* resolves with a list and never rejects, and on a transport error, a
\* status other than 200, an empty payload, a decode error, a feed without
\* entities or a transport timeout the list is empty.
C3_LiveStoreNeverRejects ==
    \A c \in Calls :
        Call(c).fetch = "settled" =>
            /\ Call(c).result # None
            /\ ~Call(c).result[1].rejected
            /\ ~Call(c).caught
            /\ (\/ Call(c).outcome[1].kind \in LiveFailureKinds
                \/ Call(c).outcome[1].entities = << >>)
               => Call(c).result[1].value = << >>

\* A decode error has been turned into the empty list, and a transport
\* timeout too
C3_Witness ==
    \E c, d \in Calls :
        /\ Call(c).fetch = "settled"
        /\ Call(c).outcome[1].kind = "baddecode"
        /\ Call(c).result[1].value = << >>
        /\ Call(d).fetch = "settled"
        /\ Call(d).outcome[1].kind = "timeout"

\* The time-to-live the specification gives the live feed
LIVE_TTL == 30 * 1000

IssuedFetch(c) == Call(c).fetch # "none"

Display(t) ==
    <<IF t[1] % 12 = 0 THEN 12 ELSE t[1] % 12, t[2],
      IF t[1] % 24 < 12 THEN "AM" ELSE "PM">>

RowsOf(c) ==
    LET st == req[c[1]].gtfsData[1].stopTimes
    IN  {st[k] : k \in {k \in 1..Len(st) : st[k].stop_id = Call(c).stopId}}

\* C5: when the timer settles the race, the live-feed request not having
\* completed, getUpcomingArrivals returns (it neither blocks nor fails) the
\* arrivals of the static schedule, each with isRealtime = false.
C5_TimeoutGivesStatic ==
    \A c \in Calls :
        Call(c).winner = "timer" =>
            /\ Call(c).pc = "done"
            /\ ~Call(c).caught
            /\ \A a \in ArrivalsOf(c) :
                  /\ ~a.isRealtime
                  /\ a.delayMinutes = 0
                  /\ \E st \in RowsOf(c) : a.scheduledArrival = Display(st.arrival_time)

\* The timer has fired with the request still in flight, and scheduled
\* arrivals were returned
C5_Witness ==
    \E c \in Calls :
        /\ Call(c).winner = "timer"
        /\ Call(c).fetch = "inflight"
        /\ Call(c).arrivals # << >>

InFlight(r) == {i \in 1..Len(res[r]) : res[r][i].fetch = "inflight"}

\* C6, as stated: at no point are two upstream live-feed fetches in flight
\* at the same time.
C6_Original == Cardinality(UNION {{<<r, i>> : i \in InFlight(r)} : r \in Reqs}) <= 1

\* C6, amended: each per-stop call of one request issues its own live-feed
\* fetch; until the first of them settles, as many fetches are in flight as
\* the snapshot has stops, and never more.
C6_OneFetchPerStop ==
    \A r \in Reqs :
        /\ Cardinality(InFlight(r)) <= Len(res[r])
        /\ (req[r].pc = "resolving" /\ \A i \in 1..Len(res[r]) : res[r][i].fetch # "settled")
           => Cardinality(InFlight(r)) = Len(req[r].gtfsData[1].stops)

\* Both per-stop fetches of a request are in flight
C6_Witness == \E r \in Reqs : Cardinality(InFlight(r)) = 2

Minutes(seq, k) == seq[k].minutesUntilArrival

\* C7: the returned arrivals are at most 5, in non-decreasing order of
\* minutesUntilArrival, and when more than 5 entries pass the window they
\* are the 5 with the smallest minutesUntilArrival.
C7_CapAndOrder ==
    \A c \in Returned :
        LET a == Call(c).arrivals
            u == Call(c).upcoming
        IN  /\ Len(a) <= 5
            /\ Len(a) = IF Len(u) > 5 THEN 5 ELSE Len(u)
            /\ \A k \in 1..Len(a) : \E j \in 1..Len(u) : a[k] = u[j]
            /\ \A j, k \in 1..Len(a) : j < k => Minutes(a, j) <= Minutes(a, k)
            /\ \A m \in {Minutes(u, j) : j \in 1..Len(u)} :
                  LET inU == Cardinality({j \in 1..Len(u) : Minutes(u, j) = m})
                      inA == Cardinality({k \in 1..Len(a) : Minutes(a, k) = m})
                      below == Cardinality({j \in 1..Len(u) : Minutes(u, j) < m})
                      room == IF below >= Len(a) THEN 0 ELSE Len(a) - below
                  IN  inA = IF inU <= room THEN inU ELSE room

\* More than 5 entries passed the window, with different waits among the 5 kept
C7_Witness ==
    \E c \in Returned :
        /\ Len(Call(c).upcoming) > 5
        /\ Len(Call(c).arrivals) = 5
        /\ Minutes(Call(c).arrivals, 1) < Minutes(Call(c).arrivals, 5)

\* C8, as stated: every resolved arrival has minutesUntilArrival strictly
\* greater than 0 and at most 120.
C8_Original ==
    \A c \in Returned : \A a \in ArrivalsOf(c) :
        a.minutesUntilArrival > 0 /\ a.minutesUntilArrival <= 120

\* C8, amended: every resolved arrival has an integer minutesUntilArrival
\* that is at least 0 and at most 120 (0 for an arrival less than 30 seconds
\* after now).
C8_MinutesRange ==
    \A c \in Returned : \A a \in ArrivalsOf(c) :
        a.minutesUntilArrival \in 0..120

\* One list holds an arrival 10 seconds ahead, at 0 minutes, and one exactly
\* 2 hours ahead, at 120
C8_Witness ==
    \E c \in Returned : \E a, b \in ArrivalsOf(c) :
        a.minutesUntilArrival = 0 /\ b.minutesUntilArrival = 120

\* The arrival time of a stop-time as the specification resolves it: the
\* live prediction if the updates used carry one for the trip and stop, and
\* otherwise HH:MM:SS counted from midnight of the calendar date of now
UsedUpdates(c) ==
    IF Call(c).winner = "fetch" THEN Call(c).result[1].value ELSE << >>

Resolvable(c, st) ==
    LET g == req[c[1]].gtfsData[1]
    IN  \E k \in 1..Len(g.trips) :
            /\ g.trips[k].trip_id = st.trip_id
            /\ \A j \in 1..(k - 1) : g.trips[j].trip_id # st.trip_id
            /\ \E n \in 1..Len(g.routes) : g.routes[n].route_id = g.trips[k].route_id

LivePrediction(c, st) ==
    LET e == Find(UsedUpdates(c),
                  LAMBDA x : x.tripUpdate # None /\ x.tripUpdate[1].tripId = st.trip_id)
        u == IF e = None THEN None
             ELSE Find(e[1].tripUpdate[1].stopTimeUpdate,
                       LAMBDA x : x.stopId = Call(c).stopId)
    IN  IF u = None THEN None ELSE u[1].arrival

ArrivalPerSpec(c, st) ==
    IF LivePrediction(c, st) # None THEN LivePrediction(c, st)[1] * 1000
    ELSE (Call(c).now \div DAY_MS) * DAY_MS + st.arrival_time[1] * HOUR_MS
         + st.arrival_time[2] * MINUTE_MS + st.arrival_time[3] * 1000

KeptPerSpec(c) ==
    LET st == req[c[1]].gtfsData[1].stopTimes
    IN  {k \in 1..Len(st) :
            /\ st[k].stop_id = Call(c).stopId
            /\ Resolvable(c, st[k])
            /\ ArrivalPerSpec(c, st[k]) > Call(c).now
            /\ ArrivalPerSpec(c, st[k]) - Call(c).now <= 2 * HOUR_MS}

\* C9: a stop-time is kept if and only if its (possibly live-adjusted)
\* arrival time is strictly after now and at most 2 hours after now: the
\* entries that pass the filter are exactly those stop-times, each with the
\* wait that arrival time gives.
C9_WindowExact ==
    \A c \in Returned :
        ~Call(c).caught =>
            LET st == req[c[1]].gtfsData[1].stopTimes
                u == Call(c).upcoming
            IN  /\ Len(u) = Cardinality(KeptPerSpec(c))
                /\ \A m \in {Minutes(u, j) : j \in 1..Len(u)} :
                      Cardinality({j \in 1..Len(u) : Minutes(u, j) = m})
                      = Cardinality({k \in KeptPerSpec(c) :
                            MathRound(ArrivalPerSpec(c, st[k]) - Call(c).now,
                                      MINUTE_MS) = m})

\* C10: parseGtfsTime resolves HH:MM:SS to the clock time (HH mod 24):MM:SS
\* on the calendar date of now plus (HH div 24) days, at every time of day
\* of now.
C10_MidnightRollover ==
    parsed.called =>
        LET hh == parsed.timeStr[1]
            mm == parsed.timeStr[2]
            ss == parsed.timeStr[3]
        IN  /\ parsed.result \div DAY_MS = parsed.wallNow \div DAY_MS + hh \div 24
            /\ (parsed.result % DAY_MS) \div 1000 = (hh % 24) * 3600 + mm * 60 + ss

\* 25:30:00, parsed 200 ms before midnight of day 1, is 01:30 of day 2
C10_Witness ==
    /\ parsed.called
    /\ parsed.timeStr = <<25, 30, 0>>
    /\ parsed.wallNow = At(1, 23, 59, 59, 800)
    /\ parsed.result \div DAY_MS = 2
    /\ (parsed.result % DAY_MS) \div MINUTE_MS = 90

\* The scheduled arrival of a stop-time as the specification resolves it:
\* HH:MM:SS counted from midnight of the calendar date of now
SchedPerSpec(c, st) ==
    (Call(c).now \div DAY_MS) * DAY_MS + st.arrival_time[1] * HOUR_MS
    + st.arrival_time[2] * MINUTE_MS + st.arrival_time[3] * 1000

TripOf(c, st) == Find(req[c[1]].gtfsData[1].trips, LAMBDA t : t.trip_id = st.trip_id)

\* C11: a stop-time whose trip and stop have a live arrival prediction L
\* within (now, now + 2 h] is returned with isRealtime = true,
\* delayMinutes = round((L - scheduledArrival) / 60 s) and
\* minutesUntilArrival = round((L - now) / 60 s), and the list is ordered by
\* the waits so computed.
C11_LiveReplaces ==
    \A c \in Returned :
        ~Call(c).caught =>
            LET u == Call(c).upcoming
            IN  /\ \A j, k \in 1..Len(u) : j < k => Minutes(u, j) <= Minutes(u, k)
                /\ \A st \in RowsOf(c) :
                      (/\ Resolvable(c, st)
                       /\ LivePrediction(c, st) # None
                       /\ LivePrediction(c, st)[1] * 1000 > Call(c).now
                       /\ LivePrediction(c, st)[1] * 1000 - Call(c).now <= 2 * HOUR_MS)
                      => \E j \in 1..Len(u) :
                            /\ u[j].isRealtime
                            /\ u[j].headsign = TripOf(c, st)[1].trip_headsign
                            /\ u[j].minutesUntilArrival =
                                   MathRound(LivePrediction(c, st)[1] * 1000
                                             - Call(c).now, MINUTE_MS)
                            /\ u[j].delayMinutes =
                                   MathRound(LivePrediction(c, st)[1] * 1000
                                             - SchedPerSpec(c, st), MINUTE_MS)

\* The stop-times of the call's stop that the static schedule alone puts in
\* the window (now, now + 2 h]
StaticKept(c) ==
    LET st == req[c[1]].gtfsData[1].stopTimes
    IN  {k \in 1..Len(st) :
            /\ st[k].stop_id = Call(c).stopId
            /\ Resolvable(c, st[k])
            /\ SchedPerSpec(c, st[k]) > Call(c).now
            /\ SchedPerSpec(c, st[k]) - Call(c).now <= 2 * HOUR_MS}

\* The live store answered the call with an empty list
EmptyLive(c) == Call(c).winner = "fetch" /\ Call(c).result[1].value = << >>

\* C12: when the live store yields an empty list, getUpcomingArrivals
\* returns exactly the arrivals of the static schedule: one entry per
\* scheduled stop-time within (now, now + 2 h], with the wait its scheduled
\* time gives, isRealtime = false and delayMinutes = 0, in order of wait and
\* cut to 5.
C12_EmptyLiveIsStatic ==
    \A c \in Returned :
        EmptyLive(c) =>
            LET st == req[c[1]].gtfsData[1].stopTimes
                u == Call(c).upcoming
                a == Call(c).arrivals
            IN  /\ ~Call(c).caught
                /\ \A j \in 1..Len(u) : ~u[j].isRealtime /\ u[j].delayMinutes = 0
                /\ \A j, k \in 1..Len(u) : j < k => Minutes(u, j) <= Minutes(u, k)
                /\ a = Slice0(u, 5)
                /\ Len(u) = Cardinality(StaticKept(c))
                /\ \A m \in {Minutes(u, j) : j \in 1..Len(u)} :
                      Cardinality({j \in 1..Len(u) : Minutes(u, j) = m})
                      = Cardinality({k \in StaticKept(c) :
                            MathRound(SchedPerSpec(c, st[k]) - Call(c).now,
                                      MINUTE_MS) = m})

\* The stop-times of the call's stop whose trip and route the snapshot has
ResolvableRows(c) ==
    LET st == req[c[1]].gtfsData[1].stopTimes
    IN  {k \in 1..Len(st) : st[k].stop_id = Call(c).stopId /\ Resolvable(c, st[k])}

\* Those of them with no live prediction whose scheduled time is, on the
\* date of now and on the date the loop runs, at least a second inside the
\* window
SurelyKept(c) ==
    LET st == req[c[1]].gtfsData[1].stopTimes
    IN  {k \in ResolvableRows(c) :
            /\ LivePrediction(c, st[k]) = None
            /\ Call(c).wallNow \div DAY_MS = Call(c).now \div DAY_MS
            /\ SchedPerSpec(c, st[k]) - Call(c).now >= 1000
            /\ SchedPerSpec(c, st[k]) - Call(c).now <= 2 * HOUR_MS - 1000}

RouteOf(c, trip) ==
    Find(req[c[1]].gtfsData[1].routes, LAMBDA r : r.route_id = trip.route_id)

\* C13: getUpcomingArrivals does not fail on reference gaps.  Every entry
\* comes from a stop-time whose trip and whose route the snapshot has; a
\* stop-time with an absent trip or route contributes none, while the other
\* stop-times of the stop are still processed; a stop with no stop-times
\* yields an empty list.
C13_GapsSkipped ==
    \A c \in Returned :
        LET u == Call(c).upcoming
        IN  /\ ~Call(c).caught
            /\ \A j \in 1..Len(u) : \E st \in RowsOf(c) :
                   /\ TripOf(c, st) # None
                   /\ RouteOf(c, TripOf(c, st)[1]) # None
                   /\ u[j].headsign = TripOf(c, st)[1].trip_headsign
                   /\ u[j].routeId = RouteOf(c, TripOf(c, st)[1])[1].route_id
                   /\ u[j].routeName = RouteOf(c, TripOf(c, st)[1])[1].route_short_name
            /\ Len(u) <= Cardinality(ResolvableRows(c))
            /\ Len(u) >= Cardinality(SurelyKept(c))
            /\ RowsOf(c) = {} => Call(c).arrivals = << >>

\* The table of the main feed at 13:45: the rows of T3 (route absent) and of
\* T9 (trip absent) are skipped, the row after them is returned
C13_Witness ==
    \E c \in Returned :
        /\ req[c[1]].gtfsData[1].stopTimes = MainStopTimes
        /\ Call(c).stopId = "S1"
        /\ ~Call(c).caught
        /\ Cardinality(RowsOf(c)) = 5
        /\ Cardinality(ResolvableRows(c)) = 3
        /\ Len(Call(c).upcoming) = 3
        /\ \E j \in 1..3 : Call(c).upcoming[j].scheduledArrival = Display(<<15, 0, 0>>)

\* The requests answered 200, and the stops table they were answered from
Answered == {r \in Reqs : req[r].pc = "done" /\ req[r].status = 200}
TableOf(r) == req[r].gtfsData[1].stops

\* The distance from the query point of request r to stop k of its table
DistanceTo(r, k) ==
    calculateDistance(parseFloat(req[r].lat), parseFloat(req[r].lon),
                      parseFloat(TableOf(r)[k].stop_lat),
                      parseFloat(TableOf(r)[k].stop_lon))

\* The stops of the table within the radius of the query point
Within(r) ==
    {k \in 1..Len(TableOf(r)) :
        DistanceTo(r, k) # None /\ DistanceTo(r, k)[1] <= 10 * 1000}

\* C14: every stop of the response is a stop of the snapshot at most 10 km
\* from the query point, every stop within 10 km appears unless the cap
\* of 60 cuts it, and the response is in non-decreasing order of distance.
C14_RadiusAndOrder ==
    \A r \in Answered :
        LET out == req[r].stops
        IN  /\ \A j \in 1..Len(out) :
                   /\ out[j].distance # None
                   /\ out[j].distance[1] <= 10 * 1000
                   /\ \E k \in Within(r) :
                          /\ out[j].id = TableOf(r)[k].stop_id
                          /\ out[j].distance = DistanceTo(r, k)
            /\ \A id \in {TableOf(r)[k].stop_id : k \in 1..Len(TableOf(r))} :
                   Cardinality({j \in 1..Len(out) : out[j].id = id}) <=
                   Cardinality({k \in Within(r) : TableOf(r)[k].stop_id = id})
            /\ Cardinality(Within(r)) <= 60 => Len(out) = Cardinality(Within(r))
            /\ \A j, k \in 1..Len(out) :
                   j < k => out[j].distance[1] <= out[k].distance[1]

\* A response that keeps two stops in the radius, nearest first though the
\* table lists it last, and leaves out a stop beyond the radius
C14_Witness ==
    \E r \in Answered :
        /\ Len(TableOf(r)) = 3
        /\ Cardinality(Within(r)) = 2
        /\ Len(req[r].stops) = 2
        /\ req[r].stops[1].id = TableOf(r)[3].stop_id
        /\ req[r].stops[1].distance[1] < req[r].stops[2].distance[1]
        /\ req[r].stops[2].distance[1] > 9000

\* C15: the response never holds more than 60 stops; when more than 60
\* stops lie within the radius it holds 60, and no stop left out is closer
\* than a stop kept.
C15_ResultCap ==
    \A r \in Answered :
        LET out == req[r].stops
            kept == {out[j].id : j \in 1..Len(out)}
        IN  /\ Len(out) <= 60
            /\ Cardinality(Within(r)) > 60 =>
                  /\ Len(out) = 60
                  /\ Cardinality(kept) = 60
                  /\ \A k \in Within(r) :
                         TableOf(r)[k].stop_id \notin kept =>
                             \A j \in 1..Len(out) :
                                 out[j].distance[1] <= DistanceTo(r, k)[1]

\* A table with 62 stops in the radius was answered with 60 of them
C15_Witness ==
    \E r \in Answered :
        /\ Cardinality(Within(r)) = 62
        /\ Len(req[r].stops) = 60
        /\ \E k \in Within(r) :
               /\ \A j \in 1..60 : req[r].stops[j].id # TableOf(r)[k].stop_id
               /\ DistanceTo(r, k)[1] > req[r].stops[60].distance[1]

\* The stop identifiers in ascending order
IdsAscending ==
    BigIds \o <<"S1", "S2", "S3", "S4", "S5", "S6", "S7", "S8">>

IdLess(a, b) ==
    \E i, j \in 1..Len(IdsAscending) :
        i < j /\ IdsAscending[i] = a /\ IdsAscending[j] = b

\* C16, as stated: the response is in ascending order of distance, and two
\* stops at equal distance are in ascending order of stop identifier.
C16_Original ==
    \A r \in Answered :
        LET out == req[r].stops
        IN  \A j, k \in 1..Len(out) :
                j < k =>
                    \/ out[j].distance[1] < out[k].distance[1]
                    \/ /\ out[j].distance[1] = out[k].distance[1]
                       /\ out[j].id = out[k].id \/ IdLess(out[j].id, out[k].id)

\* C16: the response is in ascending order of distance, and two stops at
\* equal distance are in the order in which the stops table lists them.
C16_TiesKeepTableOrder ==
    \A r \in Answered :
        LET out == req[r].stops
        IN  \A j, k \in 1..Len(out) :
                j < k =>
                    \/ out[j].distance[1] < out[k].distance[1]
                    \/ /\ out[j].distance[1] = out[k].distance[1]
                       /\ \E p, q \in Within(r) :
                              /\ p < q
                              /\ TableOf(r)[p].stop_id = out[j].id
                              /\ TableOf(r)[q].stop_id = out[k].id

\* The table lists S4 before S3, both as far from the query point: the
\* response has S4 before S3
C16_Witness ==
    \E r \in Answered :
        /\ Len(req[r].stops) >= 2
        /\ req[r].stops[1].id = "S4"
        /\ req[r].stops[2].id = "S3"
        /\ req[r].stops[1].distance = req[r].stops[2].distance
        /\ req[r].stops[1].distance[1] > 0

\* C17: a request whose lat or lon is absent or is no number is answered
\* 400, never 200 (nor anything else).
C17_InvalidIs400 ==
    \A r \in Reqs :
        (/\ req[r].pc = "done"
         /\ parseFloat(req[r].lat) = None \/ parseFloat(req[r].lon) = None)
        => req[r].status = 400

\* In this step the static download of request r fails
DownloadFails(r) ==
    /\ req[r].pc = "download"
    /\ req'[r].pc # "download"
    /\ req'[r].failure # ""

\* C19: when a refresh of the static feed fails (network failure, timeout,
\* empty response, required table missing) the error reaches the caller,
\* which answers 500, and the cache slot is left exactly as it was: a
\* snapshot cached before, and its lastUpdated, are still there.
C19_FailureKeepsCache ==
    [][\A r \in Reqs :
          DownloadFails(r) =>
              /\ gtfsCache' = gtfsCache
              /\ req'[r].pc = "done"
              /\ req'[r].status = 500
              /\ req'[r].gtfsData = None]_vars

\* A refresh begun on a snapshot one hour old has failed for want of a
\* required table, and the slot still holds that snapshot
C19_Witness ==
    \E r \in Reqs :
        /\ req[r].failure = "missing"
        /\ req[r].status = 500
        /\ gtfsCache # None
        /\ req[r].fetchAt - gtfsCache[1].lastUpdated >= CACHE_DURATION

\* The request to /api/routes/[routeId] was answered from an archive that
\* could be read
RouteAnswered ==
    /\ routeReq.pc = "done"
    /\ routeReq.outcome[1].kind = "ok"
    /\ routeReq.outcome[1].archive[1].trips # None

FeedTrips == routeReq.outcome[1].archive[1].trips[1]
TripsOfRoute == {k \in 1..Len(FeedTrips) : FeedTrips[k].route_id = routeReq.routeId}
FeedComplete ==
    /\ routeReq.outcome[1].archive[1].stopTimes # None
    /\ routeReq.outcome[1].archive[1].stops # None
FeedStopTimes == routeReq.outcome[1].archive[1].stopTimes[1]
FirstTripRows ==
    {k \in 1..Len(FeedStopTimes) :
        FeedStopTimes[k].trip_id = FeedTrips[MinOf(TripsOfRoute)].trip_id}

\* C18: if no trip of the feed has the route id the response is 404;
\* otherwise it is 200 and lists the stops of the route's first trip in
\* ascending order of stop_sequence, as directions each headsign of the
\* route's trips once, and as total_trips the number of the route's trips.
C18_RouteDetails ==
    RouteAnswered =>
        /\ TripsOfRoute = {} => routeReq.status = 404
        /\ (TripsOfRoute # {} /\ FeedComplete) =>
              /\ routeReq.status = 200
              /\ LET body == routeReq.body[1]
                 IN  /\ body.route_id = routeReq.routeId
                     /\ body.total_trips = Cardinality(TripsOfRoute)
                     /\ {body.directions[i] : i \in 1..Len(body.directions)}
                        = {FeedTrips[k].trip_headsign : k \in TripsOfRoute}
                     /\ \A i, j \in 1..Len(body.directions) :
                            i # j => body.directions[i] # body.directions[j]
                     /\ Len(body.stops) = Cardinality(FirstTripRows)
                     /\ \A p \in 1..Len(body.stops) : \E k \in FirstTripRows :
                            /\ body.stops[p].stop_id = FeedStopTimes[k].stop_id
                            /\ body.stops[p].arrival_time = FeedStopTimes[k].arrival_time
                            /\ Cardinality({j \in FirstTripRows :
                                   FeedStopTimes[j].stop_sequence
                                   < FeedStopTimes[k].stop_sequence}) = p - 1

\* Route R1 with T1 as its first trip, whose rows the table lists with
\* stop_sequence 10, 9, 2: the response lists S1, S2, S9, two directions
\* and three trips
C18_Witness ==
    /\ RouteAnswered
    /\ routeReq.routeId = "R1"
    /\ routeReq.status = 200
    /\ FeedTrips[1].trip_id = "T1"
    /\ FeedStopTimes[2].stop_id = "S9"
    /\ FeedStopTimes[4].stop_id = "S2"
    /\ Len(routeReq.body[1].stops) = 3
    /\ routeReq.body[1].stops[1].stop_id = "S1"
    /\ routeReq.body[1].stops[2].stop_id = "S2"
    /\ routeReq.body[1].stops[3].stop_id = "S9"
    /\ routeReq.body[1].directions = <<"East", "West">>
    /\ routeReq.body[1].total_trips = 3

\* C20: calculateDistance is symmetric, is 0 from a point to itself, and is
\* never negative or NaN for valid coordinates.
C20_SymmetricZeroNonNegative ==
    measured.called =>
        /\ measured.ab # None
        /\ measured.ba # None
        /\ measured.ab = measured.ba
        /\ measured.ab[1] >= 0
        /\ measured.aa = Some(0)

\* C21: in one nearby-stops request getUpcomingArrivals is called only for
\* the stops that survive the radius filter, the sort and the cut to 60: at
\* most 60 calls and live-feed requests are made, none for a stop outside
\* the radius.
C21_ResolversOnlyForSurvivors ==
    \A r \in Answered :
        /\ Len(res[r]) <= MAX_RESULTS
        /\ liveFetches <= MAX_RESULTS
        /\ \A i \in 1..Len(res[r]) :
              \E k \in 1..Len(req[r].stops) : req[r].stops[k].id = res[r][i].stopId

\* The instant of the date of now at the time of day at which the loop of
\* the call ran
OnDateOfNow(c) == getDate(Call(c).now) * DAY_MS + (Call(c).wallNow % DAY_MS)

\* C22: within one getUpcomingArrivals call every scheduled time is resolved
\* against the calendar date of the instant now of the window test and of
\* minutesUntilArrival, also when the clock passes local midnight between
\* the capture of now and the parsing of the stop-times: the entries are
\* those the loop yields when it reads the date of now.
C22_DateOfNow ==
    \A c \in Returned :
        ~Call(c).caught =>
            Call(c).upcoming =
                upcomingSorted(Call(c).stopId, req[c[1]].gtfsData[1],
                               UsedUpdates(c), Call(c).now, OnDateOfNow(c))

\* A snapshot with its five fields, the four tables those of one archive
\* upstream served, stamped no later than the present
OneDownload(s) ==
    /\ DOMAIN s = {"routes", "trips", "stopTimes", "stops", "lastUpdated"}
    /\ s.lastUpdated <= clock
    /\ \E o \in CacheStaticOutcomes :
          /\ o.kind = "ok"
          /\ s.routes = o.archive[1].routes
          /\ s.trips = o.archive[1].trips
          /\ s.stopTimes = o.archive[1].stopTimes
          /\ s.stops = o.archive[1].stops

\* C23: under every interleaving of requests and refreshes the cache slot
\* is empty or holds a fully constructed snapshot, its tables and
\* lastUpdated from one completed download; no request holds tables of two
\* downloads or a snapshot lacking a table, and a snapshot a request holds
\* is never written to.
C23_SnapshotWhole ==
    /\ [](/\ gtfsCache # None => OneDownload(gtfsCache[1])
          /\ \A r \in Reqs :
                req[r].gtfsData # None => OneDownload(req[r].gtfsData[1]))
    /\ [][\A r \in Reqs :
             /\ req[r].gtfsData # None => req'[r].gtfsData = req[r].gtfsData
             /\ DownloadSucceeds(r) =>
                   /\ req'[r].gtfsData = gtfsCache'
                   /\ gtfsCache'[1].lastUpdated = clock]_vars

\* Two downloads were in flight together and completed one after the other
\* with different archives: the first request holds the snapshot of its own
\* download, the slot that of the second
C23_Witness ==
    \E r, q \in Reqs :
        /\ req[r].gtfsData # None /\ req[q].gtfsData # None
        /\ ~req[r].cacheHit /\ ~req[q].cacheHit
        /\ req[q].fetchAt < req[r].gtfsData[1].lastUpdated
        /\ req[r].gtfsData[1].lastUpdated < req[q].gtfsData[1].lastUpdated
        /\ req[r].gtfsData[1].routes # req[q].gtfsData[1].routes
        /\ req[r].gtfsData[1].trips # req[q].gtfsData[1].trips
        /\ gtfsCache = req[q].gtfsData

\* C29: across every sequence and interleaving of downloadAndExtractGTFS
\* calls, succeeding or failing, the cache slot never goes back from holding
\* a snapshot to empty and gtfsCache.lastUpdated never decreases.
C29_CacheMonotonic ==
    [][gtfsCache # None =>
          /\ gtfsCache' # None
          /\ gtfsCache'[1].lastUpdated >= gtfsCache[1].lastUpdated]_vars

\* A download requested earlier than the one that filled the slot has
\* completed after it and replaced the snapshot
C29_Witness ==
    \E r, q \in Reqs :
        /\ req[r].gtfsData # None /\ ~req[r].cacheHit
        /\ gtfsCache # None
        /\ gtfsCache[1].lastUpdated > req[r].gtfsData[1].lastUpdated
        /\ req[q].fetchAt < req[r].fetchAt
        /\ req[q].gtfsData = gtfsCache

\* The live updates the call used carry, in an entity of the trip of st, a
\* prediction for the stop of the call
Predicted(c, st) ==
    \E k \in 1..Len(UsedUpdates(c)) :
        LET e == UsedUpdates(c)[k]
        IN  /\ e.tripUpdate # None
            /\ e.tripUpdate[1].tripId = st.trip_id
            /\ \E n \in 1..Len(e.tripUpdate[1].stopTimeUpdate) :
                  e.tripUpdate[1].stopTimeUpdate[n].stopId = Call(c).stopId

\* The headsigns of the trips so predicted among the stop-times of the call
PredictedHeadsigns(c) ==
    {TripOf(c, st)[1].trip_headsign :
        st \in {x \in RowsOf(c) : Predicted(c, x) /\ TripOf(c, x) # None}}

\* The entries of the call had it used no live update at all
StaticEntries(c) ==
    upcomingSorted(Call(c).stopId, req[c[1]].gtfsData[1], << >>, Call(c).now,
                   Call(c).wallNow)

\* C24: a live update changes a resolved arrival only when its trip is the
\* stop-time's trip and it has a prediction for the queried stop; entities
\* without a trip update, updates of other trips and updates of the same
\* trip for other stops leave the arrival as the schedule alone gives it,
\* with isRealtime = false and delayMinutes = 0.
C24_OnlyMatchingUpdates ==
    \A c \in Returned :
        ~Call(c).caught =>
            LET u == Call(c).upcoming
                static == StaticEntries(c)
                predicted == PredictedHeadsigns(c)
            IN  /\ predicted = {} => u = static
                /\ \A j \in 1..Len(u) :
                      u[j].headsign \notin predicted =>
                          /\ ~u[j].isRealtime
                          /\ u[j].delayMinutes = 0
                          /\ \E k \in 1..Len(static) : static[k] = u[j]
                          /\ \E st \in RowsOf(c) :
                                u[j].scheduledArrival = Display(st.arrival_time)

\* The call used a feed with an entity without trip update, an update of T1
\* for another stop and an update of another trip for S1, and returned the
\* scheduled arrival of T1
C24_Witness ==
    \E c \in Returned :
        /\ UsedUpdates(c) = LiveElsewhere
        /\ \E j \in 1..Len(Call(c).upcoming) :
              /\ Call(c).upcoming[j].headsign = "East"
              /\ ~Call(c).upcoming[j].isRealtime
              /\ Call(c).upcoming[j].scheduledArrival = Display(<<14, 0, 0>>)

\* The stop update the loop finds for a stop-time: that of the first entity
\* of its trip, for the stop of the call
StopUpdateOf(c, st) ==
    LET e == Find(UsedUpdates(c),
                  LAMBDA x : x.tripUpdate # None /\ x.tripUpdate[1].tripId = st.trip_id)
    IN  IF e = None THEN None
        ELSE Find(e[1].tripUpdate[1].stopTimeUpdate,
                  LAMBDA x : x.stopId = Call(c).stopId)

DepartureOnly(c, st) ==
    /\ StopUpdateOf(c, st) # None
    /\ StopUpdateOf(c, st)[1].arrival = None
    /\ StopUpdateOf(c, st)[1].departure # None

DepartureOnlyHeadsigns(c) ==
    {TripOf(c, st)[1].trip_headsign :
        st \in {x \in RowsOf(c) : DepartureOnly(c, x) /\ TripOf(c, x) # None}}

\* C25: when the matching live stop update has a departure prediction and
\* no arrival prediction, the arrival keeps its scheduled time for the
\* window test, minutesUntilArrival and the sort (it is the entry the
\* schedule alone gives, the list is in order of wait), has
\* delayMinutes = 0 and isRealtime = true.
C25_DepartureOnly ==
    \A c \in Returned :
        ~Call(c).caught =>
            LET u == Call(c).upcoming
                static == StaticEntries(c)
                departing == DepartureOnlyHeadsigns(c)
            IN  /\ \A j, k \in 1..Len(u) : j < k => Minutes(u, j) <= Minutes(u, k)
                /\ \A j \in 1..Len(u) :
                      u[j].headsign \in departing =>
                          /\ u[j].isRealtime
                          /\ u[j].delayMinutes = 0
                          /\ \E k \in 1..Len(static) :
                                static[k] = [u[j] EXCEPT !.isRealtime = FALSE]
                /\ \A k \in 1..Len(static) :
                      static[k].headsign \in departing =>
                          \E j \in 1..Len(u) :
                              u[j] = [static[k] EXCEPT !.isRealtime = TRUE]

\* T1 has a departure prediction only: its 14:00 arrival is returned at its
\* scheduled time, marked realtime, with no delay
C25_Witness ==
    \E c \in Returned :
        /\ UsedUpdates(c) = LiveDepartureOnly
        /\ \E j \in 1..Len(Call(c).upcoming) :
              /\ Call(c).upcoming[j].headsign = "East"
              /\ Call(c).upcoming[j].isRealtime
              /\ Call(c).upcoming[j].delayMinutes = 0
              /\ Call(c).upcoming[j].scheduledArrival = Display(<<14, 0, 0>>)
              /\ Call(c).upcoming[j].minutesUntilArrival = 15

\* C26: in every resolved arrival delayMinutes is 0 whenever isRealtime is
\* false; a non-zero delayMinutes occurs only on an arrival whose time was
\* replaced by a live arrival prediction.
C26_DelayOnlyIfRealtime ==
    \A c \in Returned :
        \A j \in 1..Len(Call(c).upcoming) :
            LET a == Call(c).upcoming[j]
            IN  /\ ~a.isRealtime => a.delayMinutes = 0
                /\ a.delayMinutes # 0 =>
                      /\ a.isRealtime
                      /\ \E st \in RowsOf(c) :
                            /\ LivePrediction(c, st) # None
                            /\ TripOf(c, st) # None
                            /\ TripOf(c, st)[1].trip_headsign = a.headsign
                            /\ a.scheduledArrival =
                                   toLocaleTimeString(LivePrediction(c, st)[1] * 1000)
                            /\ a.minutesUntilArrival =
                                   MathRound(LivePrediction(c, st)[1] * 1000
                                             - Call(c).now, MINUTE_MS)

\* One list holds an arrival moved 3 minutes by a live prediction and an
\* arrival of the schedule alone
C26_Witness ==
    \E c \in Returned : \E a, b \in ArrivalsOf(c) :
        /\ a.isRealtime /\ a.delayMinutes = 3
        /\ ~b.isRealtime /\ b.delayMinutes = 0

\* The call c after the step
CallNext(c) == res'[c[1]][c[2]]

\* In this step the live-feed request of call c settles
FetchSettles(c) == Call(c).fetch = "inflight" /\ CallNext(c).fetch = "settled"

\* C30: the live updates getUpcomingArrivals uses are those of whichever
\* settles first, the live-feed request or the 5-second timer.  If the timer
\* is first the arrivals are computed from empty live data and the request
\* stays in flight; when it settles later it changes neither the arrivals
\* returned nor any shared state.
C30_FirstSettledWins ==
    /\ [](\A c \in Returned :
             ~Call(c).caught =>
                 /\ Call(c).winner = "timer" =>
                       /\ Call(c).wallNow >= Call(c).now + RESOLVER_TIMEOUT
                       /\ Call(c).upcoming = StaticEntries(c)
                 /\ Call(c).winner = "fetch" =>
                       /\ Call(c).fetch = "settled"
                       /\ Call(c).upcoming =
                              upcomingSorted(Call(c).stopId, req[c[1]].gtfsData[1],
                                             Call(c).result[1].value, Call(c).now,
                                             Call(c).wallNow)
                 /\ Call(c).arrivals = Slice0(Call(c).upcoming, 5))
    /\ [][\A c \in Calls :
             /\ (Call(c).pc = "racing" /\ CallNext(c).pc = "done") =>
                   IF FetchSettles(c) THEN CallNext(c).winner = "fetch"
                   ELSE /\ CallNext(c).winner = "timer"
                        /\ CallNext(c).fetch = Call(c).fetch
             /\ Call(c).pc = "done" =>
                   /\ CallNext(c).pc = "done"
                   /\ CallNext(c).winner = Call(c).winner
                   /\ CallNext(c).upcoming = Call(c).upcoming
                   /\ CallNext(c).arrivals = Call(c).arrivals
             /\ (Call(c).pc = "done" /\ FetchSettles(c)) =>
                   /\ UNCHANGED <<gtfsCache, req, staticFetches, liveFetches, clock>>
                   /\ \A d \in Calls \ {c} : CallNext(d) = Call(d)]_vars

\* The timer settled the race and scheduled arrivals were returned; the
\* request, still in flight, has since delivered a prediction for the stop
C30_Witness ==
    \E c \in Returned :
        /\ Call(c).winner = "timer"
        /\ Call(c).fetch = "settled"
        /\ Call(c).result[1].value = LiveT1S1
        /\ Call(c).stopId = "S1"
        /\ Call(c).arrivals # << >>
        /\ \A a \in ArrivalsOf(c) : ~a.isRealtime
        /\ req[c[1]].pc = "done"

\* The entry of the response of request r for the stop of call c, if any
ListedFor(c) ==
    {k \in 1..Len(req[c[1]].stops) : req[c[1]].stops[k].id = Call(c).stopId}

\* C28: getUpcomingArrivals never rejects.  An exception raised while the
\* arrivals of one stop are resolved is caught and becomes the empty list
\* for that stop only: the calls for the other stops return what their own
\* loop yields, and the request answers 200 with every stop in the radius,
\* each with the list its call returned.
C28_ExceptionIsEmptyList ==
    /\ \A c \in Calls :
          /\ ~Call(c).rejected
          /\ Call(c).pc = "done" =>
                /\ Call(c).caught <=> loopThrows(Call(c).stopId, req[c[1]].gtfsData[1])
                /\ Call(c).caught => Call(c).arrivals = << >>
                /\ ~Call(c).caught =>
                      Call(c).arrivals =
                          Slice0(upcomingSorted(Call(c).stopId, req[c[1]].gtfsData[1],
                                                UsedUpdates(c), Call(c).now,
                                                Call(c).wallNow), 5)
    /\ \A r \in Reqs :
          (req[r].gtfsData # None /\ \A i \in 1..Len(res[r]) : res[r][i].pc = "done")
              => /\ req[r].pc = "done"
                 /\ req[r].status = 200
                 /\ \A k \in Within(r) :
                       \E n \in 1..Len(req[r].stops) :
                           /\ req[r].stops[n].id = TableOf(r)[k].stop_id
                           /\ req[r].stops[n].arrivals = res[r][k].arrivals

\* The loop threw for S1; the call for S2 returned normally, and the request
\* answered 200 listing both stops
C28_Witness ==
    \E r \in Answered : \E c, d \in Returned :
        /\ c[1] = r /\ d[1] = r
        /\ Call(c).caught /\ Call(c).stopId = "S1"
        /\ ~Call(d).caught /\ Call(d).stopId = "S2"
        /\ ListedFor(c) # {} /\ ListedFor(d) # {}

\* C27: every GET /api/stops/nearby request eventually produces one
\* response, 400, 200 or 500, and no second one, provided the static
\* download completes or errors; a live-feed request that never completes
\* does not block it: the request responds once the resolver timers have
\* fired.
C27_EveryRequestAnswered ==
    /\ \A r \in Reqs :
          (req[r].pc # "idle") ~>
              (req[r].pc = "done" /\ req[r].status \in {400, 200, 500})
    /\ [][\A r \in Reqs : req[r].pc = "done" => req'[r] = req[r]]_vars

\* The request has answered 200 after the timers of both calls fired, both
\* live-feed requests still in flight
C27_Witness ==
    \E r \in Answered :
        /\ Len(res[r]) = 2
        /\ \A i \in 1..Len(res[r]) :
              res[r][i].winner = "timer" /\ res[r][i].fetch = "inflight"

====
